---- MODULE Spec2Model ----
(***************************************************************************)
(* Model of the ingestion pipeline of mlop-ai/ingest.                      *)
(*                                                                         *)
(* One instance of the generic pipeline is modelled: the request handlers  *)
(* that send rows of one row type on a bounded channel                     *)
(* (src/processors/stream.rs, src/routes/files.rs), the background         *)
(* processor ("batcher") that receives them (src/processors/background.rs) *)
(* with its companion timer task, and the column-store writer as a         *)
(* nondeterministic outcome of each insert.  The four pipelines of main.rs *)
(* are four instances of this machine and share no mutable state; the row  *)
(* type of the modelled instance is chosen in Init.                        *)
(*                                                                         *)
(* Time is counted in seconds.  Instants are not stored: last_flush is     *)
(* represented by last_flush.elapsed(), saturated at MaxInterval, which is *)
(* exact for the only use the code makes of it (the comparison with        *)
(* flush_interval in the tick branch).                                     *)
(***************************************************************************)
EXTENDS Integers, Sequences, FiniteSets, TLC

\* ------------------------------------------------------------------------
\* Bounds of the model
\* ------------------------------------------------------------------------
MaxBatchSize == 3      \* batch_size ranges over 0..MaxBatchSize
MaxInterval == 1       \* flush_interval ranges over 0..MaxInterval seconds
ChannelCapacity == 2   \* capacity of the mpsc channel (1_000 in main.rs)
MaxLines == 2          \* newline-terminated lines read per request
MaxFiles == 2          \* files per presign request
MaxErrors == 1          \* cap on consecutive_errors
MaxBody == 4           \* bytes of a body decoded byte by byte
MaxNameLen == 4        \* characters of a logName given as characters
MaxAsyncRows == 1      \* largest batch inserted asynchronously (1000 in background.rs)

\* ------------------------------------------------------------------------
\* Program constants
\* ------------------------------------------------------------------------
FlushMaxRetries == 3   \* flush_records: max_retries
FinalMaxRetries == 5   \* final_flush: max_retries
TimerPeriod == 1       \* the timer task sleeps 1 second between ticks

\* the requests served by the modelled pipeline
Reqs == {1, 2}
RowTypes == {"metrics", "logs", "data", "files"}

\* 2u64.pow(retry_count)
RECURSIVE Pow2(_)
Pow2(n) == IF n = 0 THEN 1 ELSE 2 * Pow2(n - 1)

\* the backoff computed from the number of failures before the latest one
BackoffBeforeIncrement(retry) == Pow2(retry - 1)

\* Duration::from_secs(2u64.pow(retry_count)), in seconds
BackoffDuration(retry) == Pow2(retry)

\* elapsed time is only compared with flush_interval <= MaxInterval
Saturate(t) == IF t > MaxInterval THEN MaxInterval ELSE t

\* ------------------------------------------------------------------------
\* Input records (one per JSON line) and row builders
\* ------------------------------------------------------------------------
\* data maps of metrics inputs: empty, one or two valid entries, a blank key,
\* a non-finite value alone and beside a valid entry
MetricMaps ==
    { <<>>,
      [k \in {"a/x"} |-> "0.5"],
      [k \in {"a/x", "b"} |-> "0.5"],
      [k \in {" "} |-> "0.5"],
      [k \in {"b"} |-> "NaN"],
      [k \in {"a/x", "b"} |-> IF k = "b" THEN "inf" ELSE "0.5"] }
LogTypes == {"INFO", " "}
DataTypes == {"TEXT", " "}
LogNames == {"a/x", " "}

\* str::trim().is_empty()
TrimIsEmpty(s) == s \in {"", " "}

\* f64::is_finite
IsFinite(v) == v \notin {"NaN", "inf", "-inf"}

\* the values serde can deserialize into the input type of a row type
Inputs(t) ==
    CASE t = "metrics" ->
           {[data |-> m] : m \in MetricMaps}
      [] t = "logs" -> {[log_type |-> s] : s \in LogTypes}
      [] t = "data" -> {[data_type |-> d, log_name |-> n] : d \in DataTypes, n \in LogNames}
      [] OTHER -> {}

\* the trimmed lines a request body can hold: whitespace only, bytes that
\* simd_json rejects for the input type, or the JSON of an input
Lines(t) ==
    {[kind |-> "blank"], [kind |-> "garbage"]}
        \cup {[kind |-> "json", input |-> x] : x \in Inputs(t)}

\* validation that leaves out the is_finite test of the metric values
ValidateWithoutFinite(t, x) ==
    CASE t = "metrics" ->
           IF DOMAIN x.data = {} THEN "INVALID_METRIC_FORMAT"
           ELSE IF \E k \in DOMAIN x.data : TrimIsEmpty(k)
                THEN "INVALID_METRIC_FORMAT"
                ELSE "OK"
      [] t = "logs" ->
           IF TrimIsEmpty(x.log_type) THEN "INVALID_LOG_FORMAT" ELSE "OK"
      [] t = "data" ->
           IF TrimIsEmpty(x.data_type) \/ TrimIsEmpty(x.log_name)
           THEN "INVALID_LOG_FORMAT" ELSE "OK"
      [] OTHER -> "OK"

\* MetricInput::validate, LogInput::validate, DataInput::validate,
\* FileInput::validate: "OK" or the error code
Validate(t, x) ==
    CASE t = "metrics" ->
           IF DOMAIN x.data = {} THEN "INVALID_METRIC_FORMAT"
           ELSE IF \E k \in DOMAIN x.data :
                      TrimIsEmpty(k) \/ ~IsFinite(x.data[k])
                THEN "INVALID_METRIC_FORMAT"
                ELSE "OK"
      [] t = "logs" ->
           IF TrimIsEmpty(x.log_type) THEN "INVALID_LOG_FORMAT" ELSE "OK"
      [] t = "data" ->
           IF TrimIsEmpty(x.data_type) \/ TrimIsEmpty(x.log_name)
           THEN "INVALID_LOG_FORMAT" ELSE "OK"
      [] OTHER -> "OK"

\* ------------------------------------------------------------------------
\* Request headers, authentication and enrichment
\* ------------------------------------------------------------------------
\* a header that is absent, or whose value to_str() rejects
NoHeader == "<none>"
NotText == "<bytes>"

\* values of the Authorization header: absent, not text, another scheme,
\* an empty token, a token with a character outside [A-Za-z0-9-_.], a key
\* the table does not hold, an expired key, and the keys of two tenants
AuthorizationValues ==
    {NoHeader, NotText, "Basic k1", "Bearer ", "Bearer k!", "Bearer k0",
     "Bearer kx", "Bearer k1", "Bearer k2"}

\* auth_str.starts_with("Bearer ")
StartsWithBearer(v) ==
    v \in {"Bearer ", "Bearer k!", "Bearer k0", "Bearer kx", "Bearer k1", "Bearer k2"}

\* auth_str[7..].trim()
BearerToken(v) ==
    CASE v = "Bearer " -> ""
      [] v = "Bearer k!" -> "k!"
      [] v = "Bearer k0" -> "k0"
      [] v = "Bearer kx" -> "kx"
      [] v = "Bearer k1" -> "k1"
      [] v = "Bearer k2" -> "k2"

\* every character is ASCII alphanumeric, '-', '_' or '.'
TokenCharsOk(token) == token \in {"", "k0", "kx", "k1", "k2"}

\* Database::hash_api_key: the SHA-256 of a key without the mlpi_ prefix
HashApiKey(key) == <<"sha256", key>>

\* the rows of the api_key table, by hashed key
ApiKeys ==
    { [key |-> HashApiKey("k1"), organization_id |-> "t1", expired |-> FALSE],
      [key |-> HashApiKey("k2"), organization_id |-> "t2", expired |-> FALSE],
      [key |-> HashApiKey("kx"), organization_id |-> "t1", expired |-> TRUE] }

\* Database::get_tenant_by_api_key; db_ok tells whether the query succeeds
GetTenantByApiKey(token, db_ok) ==
    LET found == {k \in ApiKeys : k.key = HashApiKey(token)}
    IN  IF ~db_ok THEN [ok |-> FALSE, code |-> "DATABASE_ERROR"]
        ELSE IF found = {} THEN [ok |-> FALSE, code |-> "INVALID_TOKEN"]
        ELSE LET k == CHOOSE k \in found : TRUE
             IN  IF k.expired THEN [ok |-> FALSE, code |-> "INVALID_TOKEN"]
                 ELSE [ok |-> TRUE, tenant_id |-> k.organization_id]

\* auth(headers, db)
Auth(h, db_ok) ==
    IF h.authorization = NoHeader THEN [ok |-> FALSE, code |-> "MISSING_TOKEN"]
    ELSE IF h.authorization = NotText
         THEN [ok |-> FALSE, code |-> "INVALID_TOKEN_FORMAT"]
    ELSE IF ~StartsWithBearer(h.authorization)
         THEN [ok |-> FALSE, code |-> "INVALID_BEARER_FORMAT"]
    ELSE IF BearerToken(h.authorization) = ""
         THEN [ok |-> FALSE, code |-> "INVALID_TOKEN"]
    ELSE IF ~TokenCharsOk(BearerToken(h.authorization))
         THEN [ok |-> FALSE, code |-> "INVALID_TOKEN_FORMAT"]
    ELSE GetTenantByApiKey(BearerToken(h.authorization), db_ok)

\* values of the X-Run-Id and X-Project-Name headers
RunIdValues == {NoHeader, NotText, "7", "abc"}
ProjectNameValues == {NoHeader, "p"}

\* str::parse::<u64>(): the number, or no number
ParseU64(v) == IF v = "7" THEN [ok |-> TRUE, value |-> 7] ELSE [ok |-> FALSE]

\* E::from_headers(tenant_id, headers) of the enrichment type of row type
\* t: the triple, the missing-header error, or the panic of unwrap()
FromHeaders(t, tenant_id, h) ==
    IF h.run_id \in {NoHeader, NotText}
    THEN [ok |-> FALSE, code |-> "INVALID_HEADER_FORMAT"]
    ELSE IF t = "files" /\ ~ParseU64(h.run_id).ok
         THEN [ok |-> FALSE, code |-> "PANIC"]
    ELSE IF h.project_name \in {NoHeader, NotText}
         THEN [ok |-> FALSE, code |-> "INVALID_HEADER_FORMAT"]
    ELSE [ok |-> TRUE,
          enrichment |->
            [tenant_id |-> tenant_id,
             run_id |-> IF ParseU64(h.run_id).ok THEN ParseU64(h.run_id).value ELSE 0,
             project_name |-> h.project_name]]

\* the headers of a request with the given Authorization and X-Run-Id
GoodHeaders(authorization, run_id) ==
    [authorization |-> authorization, run_id |-> run_id, project_name |-> "p"]

\* the handler of row type t gets past auth and from_headers with headers h
AcceptedBy(t, h) ==
    /\ Auth(h, TRUE).ok
    /\ FromHeaders(t, Auth(h, TRUE).tenant_id, h).ok

\* the header maps of a request; NoRequest: the client sends no request
HeaderMaps ==
    [authorization : AuthorizationValues, run_id : RunIdValues,
     project_name : ProjectNameValues]
NoRequest == [none |-> TRUE]
NoEnrichment == [none |-> TRUE]

\* ErrorCode::status_code
StatusCode(code) ==
    CASE code \in {"AUTHENTICATION_FAILED", "INVALID_TOKEN", "MISSING_TOKEN",
                   "MISSING_TENANT_ID", "TOKEN_EXPIRED", "INVALID_TOKEN_FORMAT",
                   "INVALID_BEARER_FORMAT"} -> 401
      [] code = "INSUFFICIENT_PERMISSIONS" -> 403
      [] code \in {"INVALID_INPUT", "MISSING_REQUIRED_FIELD", "INVALID_JSON_FORMAT",
                   "INVALID_HEADER_FORMAT", "INVALID_METRIC_FORMAT",
                   "INVALID_LOG_FORMAT", "INVALID_TIMESTAMP", "INVALID_STEP_VALUE"} -> 400
      [] code \in {"PROCESSING_FAILED", "STREAM_PROCESSING_ERROR",
                   "BATCH_PROCESSING_ERROR", "STREAM_DECODING_ERROR",
                   "DATA_TRANSFORMATION_ERROR", "BUFFER_OVERFLOW_ERROR"} -> 422
      [] code \in {"DATABASE_ERROR", "INSERT_FAILED", "CONNECTION_FAILED",
                   "QUERY_FAILED", "BATCH_INSERT_FAILED", "DATABASE_UNAVAILABLE",
                   "SERVICE_UNAVAILABLE", "SERVICE_OVERLOADED"} -> 503
      [] code = "DATABASE_TIMEOUT" -> 504
      [] code \in {"INTERNAL_ERROR", "CONFIGURATION_ERROR"} -> 500
      [] code \in {"RESOURCE_EXHAUSTED", "RATE_LIMIT_EXCEEDED"} -> 429

\* the orders in which a HashMap can iterate over the keys S
Orders(S) ==
    {s \in [1..Cardinality(S) -> S] : \A i, j \in DOMAIN s : i # j => s[i] # s[j]}

\* a conversion that keeps one entry of the data map, as From<(MetricInput,
\* MetricEnrichment)> for MetricRow does
IntoRowsFirstEntry(t, x, r, l) ==
    IF t = "metrics"
    THEN {<<[req |-> r, line |-> l,
             fields |-> [log_name |-> k, value |-> x.data[k]]]>>
          : k \in DOMAIN x.data}
    ELSE {<<[req |-> r, line |-> l, fields |-> x]>>}

\* IntoRows::into_rows for a validated input of request r read as line l:
\* the row vectors it can return.  A metrics input fans out to one row per
\* entry of its data map, in map-iteration order; the SingleRowInput types
\* give vec![D::from(input, enrichment)].
IntoRows(t, x, r, l) ==
    IF t = "metrics"
    THEN {[i \in DOMAIN o |->
              [req |-> r, line |-> l,
               fields |-> [log_name |-> o[i], value |-> x.data[o[i]]]]]
          : o \in Orders(DOMAIN x.data)}
    ELSE {<<[req |-> r, line |-> l, fields |-> x]>>}

\* ------------------------------------------------------------------------
\* State
\* ------------------------------------------------------------------------
VARIABLES
    row_type,            \* the row type F of the pipeline instance
    batch_size,          \* flush_config.batch_size
    flush_interval,      \* flush_config.flush_interval, seconds
    skip_upload,         \* SKIP_UPLOAD
    channel,             \* rows in the mpsc channel, oldest first
    senders_open,        \* some Sender of the channel still exists
    pc,                  \* position of the background processor task
    buffer,              \* its VecDeque buffer
    elapsed,             \* last_flush.elapsed(), saturated
    consecutive_errors,  \* its error counter
    records_to_flush,    \* the batch drained by the flush in progress
    retry_count,         \* retry_count of the flush in progress
    slept,               \* seconds of backoff slept by the flush in progress
    flush_site,          \* call site of the flush in progress
    last_insert,         \* outcome of the latest insert submitted to the writer
    last_submission,     \* size and insert mode of the latest submission
    final_flushes,       \* number of calls of final_flush
    closed_with_rows,    \* the channel was closed while the buffer held rows
    timer_pc,            \* position of the timer task
    tick_pending,        \* the inactivity channel (capacity 1) holds a tick
    hpc,                 \* position of each request handler
    line_counter,        \* line_counter of process_stream
    total_processed,     \* total_processed of process_stream
    processed_in_task,   \* processed_in_task of the line being sent
    rows,                \* rows of the current line not yet sent
    in_remaining,        \* the current line is the trailing unterminated one
    response,            \* result returned by the handler
    raw_data,            \* the parsed input (or presign payload) being processed
    sent,                \* rows each request has sent on the channel
    headers,             \* the header map of each request
    enrichment,          \* the enrichment from_headers gave each request
    log_files,           \* log_files of the body of each presign response
    consumed,            \* what each request has read of its own input: the
                         \* key lookup's answer, the body or payload, the
                         \* presigner's answer
    received,            \* rows the processor has received, in receipt order
    submitted,           \* rows of the batches submitted to the writer, each
                         \* batch once, in order of first submission
    chunks,              \* the chunks the body stream of a request yields
    chunks_read,         \* number of chunks process_stream has read
    line_buffer,         \* line_buffer of process_stream, as bytes
    parsed,              \* the slices handed to simd_json::from_slice, in
                         \* order, each with the segment it was cut from
    dpc,                 \* position of process_stream in its read loop
    json_value,          \* a JSON value given as fileType
    file_type,           \* the FileType deserialized from it
    serialized,          \* the JSON value the FileType serializes to
    fpc,                 \* position of the fileType conversion
    app_error,           \* an AppError returned by a handler
    http_response,       \* the response into_response builds from it
    row_input,           \* an input whose logName is given as characters
    row_built            \* the row a constructor builds from it

config_vars == <<row_type, batch_size, flush_interval, skip_upload>>
batcher_vars == <<pc, buffer, elapsed, consecutive_errors, records_to_flush,
                  retry_count, slept, flush_site, last_insert, last_submission,
                  final_flushes,
                  received, submitted>>
timer_vars == <<timer_pc, tick_pending>>
handler_vars == <<hpc, line_counter, total_processed, processed_in_task, rows,
                  in_remaining, response, raw_data, sent, headers, enrichment,
                  log_files, consumed>>
decoder_vars == <<chunks, chunks_read, line_buffer, parsed, dpc>>
codec_vars == <<json_value, file_type, serialized, fpc>>
error_vars == <<app_error, http_response>>
row_vars == <<row_input, row_built>>
vars == <<config_vars, channel, senders_open, closed_with_rows, batcher_vars,
          timer_vars, handler_vars, decoder_vars, codec_vars, error_vars,
          row_vars>>

NoSubmission == [rows |-> 0, mode |-> "none"]
NoResponse == [code |-> "NONE", n |-> 0, status |-> 0, error |-> "NONE"]
NoInput == [none |-> TRUE]

\* the pipeline before any request: empty channel, processor and timer
\* started, no handler running
PipelineInit ==
    /\ row_type \in RowTypes
    /\ batch_size \in 0..MaxBatchSize
    /\ flush_interval \in 0..MaxInterval
    /\ skip_upload \in BOOLEAN
    /\ channel = <<>>
    /\ senders_open = TRUE
    /\ pc = "loop"
    /\ buffer = <<>>
    /\ elapsed = 0
    /\ consecutive_errors = 0
    /\ records_to_flush = <<>>
    /\ retry_count = 0
    /\ slept = 0
    /\ flush_site = "none"
    /\ last_insert = "none"
    /\ last_submission = NoSubmission
    /\ final_flushes = 0
    /\ closed_with_rows = FALSE
    /\ timer_pc = "sleeping"
    /\ tick_pending = FALSE
    /\ hpc = [r \in Reqs |-> "idle"]
    /\ line_counter = [r \in Reqs |-> 0]
    /\ total_processed = [r \in Reqs |-> 0]
    /\ processed_in_task = [r \in Reqs |-> 0]
    /\ rows = [r \in Reqs |-> <<>>]
    /\ in_remaining = [r \in Reqs |-> FALSE]
    /\ response = [r \in Reqs |-> NoResponse]
    /\ raw_data = [r \in Reqs |-> NoInput]
    /\ sent = [r \in Reqs |-> <<>>]
    /\ headers \in [Reqs -> HeaderMaps \cup {NoRequest}]
    /\ enrichment = [r \in Reqs |-> NoEnrichment]
    /\ log_files = [r \in Reqs |-> <<>>]
    /\ consumed = [r \in Reqs |-> <<>>]
    /\ received = <<>>
    /\ submitted = <<>>

\* no body is being decoded byte by byte
DecoderIdle ==
    /\ chunks = <<>>
    /\ chunks_read = 0
    /\ line_buffer = <<>>
    /\ parsed = <<>>
    /\ dpc = "idle"

NoValue == [none |-> TRUE]

\* no fileType is being converted
CodecIdle ==
    /\ json_value = NoValue
    /\ file_type = NoValue
    /\ serialized = NoValue
    /\ fpc = "idle"

\* no AppError is being turned into a response
NoAppError ==
    /\ app_error = NoValue
    /\ http_response = NoValue

\* no row is being built from a logName given as characters
NoRowBuilt ==
    /\ row_input = NoValue
    /\ row_built = NoValue

Init == PipelineInit /\ DecoderIdle /\ CodecIdle /\ NoAppError /\ NoRowBuilt

\* ------------------------------------------------------------------------
\* Background processor: start_background_processor, flush_records,
\* final_flush
\* ------------------------------------------------------------------------
\* a processor that is also gone for the senders once the writer failed
BatcherEndedOrFailing ==
    pc \in {"exited", "panicked", "cancelled"} \/ consecutive_errors > 0

\* the processor task has ended and its Receiver is dropped
BatcherEnded == pc \in {"exited", "panicked", "cancelled"}

\* a pre-check that flushes only a buffer above batch_size
BufferOverFull(len) == len > batch_size

\* the pre-check of the main loop: buffer.len() >= flush_config.batch_size
BufferFull(len) == len >= batch_size

\* a tick condition that does not look at SKIP_UPLOAD
FlushDueIgnoringSkip == elapsed >= flush_interval /\ Len(buffer) > 0

\* a tick condition that leaves a partly filled buffer to the size trigger
FlushDueWhenFull == elapsed >= flush_interval /\ Len(buffer) >= batch_size /\ ~skip_upload

\* the tick branch's condition
FlushDue == elapsed >= flush_interval /\ Len(buffer) > 0 /\ ~skip_upload

\* a drain of the front row only
DrainFront(buf) == [batch |-> <<Head(buf)>>, rest |-> Tail(buf)]

\* buffer.drain(..).collect(): the batch and what is left in the buffer
Drain(buf) == [batch |-> buf, rest |-> <<>>]

\* a sleep of d seconds completes: the clock advances, and the timer task,
\* whose own sleep is 1 second, has woken up
Sleep(d) ==
    /\ elapsed' = Saturate(elapsed + d)
    /\ timer_pc' = IF timer_pc = "sleeping" /\ d >= TimerPeriod
                   THEN "sending" ELSE timer_pc

\* a flush whose batch is a copy of the buffer, which keeps its rows
BeginFlushKeepsBuffer(site) ==
    /\ records_to_flush' = buffer
    /\ buffer' = buffer
    /\ retry_count' = 0
    /\ slept' = 0
    /\ flush_site' = site
    /\ pc' = "flush"

\* flush_records is entered with a non-empty buffer from the given call site
BeginFlush(site) ==
    /\ records_to_flush' = Drain(buffer).batch
    /\ buffer' = Drain(buffer).rest
    /\ retry_count' = 0
    /\ slept' = 0
    /\ flush_site' = site
    /\ pc' = "flush"

\* flush_records returns to its call site; its locals go out of scope
EndFlush ==
    /\ pc' = IF flush_site = "precheck" THEN "select" ELSE "loop"
    /\ flush_site' = "none"
    /\ records_to_flush' = <<>>
    /\ retry_count' = 0
    /\ slept' = 0

\* buffer.push_front(record)
PushFront(buf, record) == <<record>> \o buf

\* buffer.push_back(record)
PushBack(buf, record) == Append(buf, record)

\* the client of an attempt of flush_records: as it is for more than 1000
\* records, with async_insert = 1 and wait_for_async_insert = 0 otherwise
InsertMode(num_records) ==
    IF num_records > MaxAsyncRows THEN "sync" ELSE "async"

\* insert.write(record) for every record of the batch, insert.end(): the
\* batch reaches the writer; a retry submits the same batch again
Submit ==
    /\ submitted' = IF retry_count = 0 THEN submitted \o records_to_flush ELSE submitted
    /\ last_submission' = [rows |-> Len(records_to_flush),
                           mode |-> IF pc = "final" THEN "sync"
                                    ELSE InsertMode(Len(records_to_flush))]

\* top of the main loop
Precheck ==
    /\ pc = "loop"
    /\ IF BufferFull(Len(buffer)) /\ ~skip_upload /\ buffer # <<>>
       THEN BeginFlush("precheck")
       ELSE /\ pc' = "select"
            /\ UNCHANGED <<buffer, records_to_flush, retry_count, slept, flush_site>>
    /\ UNCHANGED <<config_vars, row_vars, error_vars, decoder_vars, codec_vars, channel, senders_open, closed_with_rows, elapsed,
                   consecutive_errors, last_insert, last_submission, final_flushes, timer_vars,
                   handler_vars,
                   received, submitted>>

\* a batcher that goes on polling its receiver during a backoff sleep
RecvRecordDuringBackoff ==
    /\ pc \in {"select", "backoff"}
    /\ channel # <<>>
    /\ buffer' = PushBack(buffer, Head(channel))
    /\ received' = Append(received, Head(channel))
    /\ channel' = Tail(channel)
    /\ pc' = IF pc = "select" THEN "loop" ELSE pc
    /\ UNCHANGED <<config_vars, row_vars, error_vars, decoder_vars, codec_vars, senders_open, closed_with_rows, elapsed,
                   consecutive_errors, records_to_flush, retry_count, slept,
                   flush_site, last_insert, last_submission, final_flushes, timer_vars,
                   handler_vars,
                   submitted>>

\* select!, branch 1, Some(record)
RecvRecord ==
    /\ pc = "select"
    /\ channel # <<>>
    /\ buffer' = PushBack(buffer, Head(channel))
    /\ received' = Append(received, Head(channel))
    /\ channel' = Tail(channel)
    /\ pc' = "loop"
    /\ UNCHANGED <<config_vars, row_vars, error_vars, decoder_vars, codec_vars, senders_open, closed_with_rows, elapsed,
                   consecutive_errors, records_to_flush, retry_count, slept,
                   flush_site, last_insert, last_submission, final_flushes, timer_vars,
                   handler_vars,
                   submitted>>

\* a batcher that takes an empty channel for a closed one
RecvClosedOnEmpty ==
    /\ pc = "select"
    /\ channel = <<>>
    /\ IF buffer # <<>> /\ ~skip_upload
       THEN /\ records_to_flush' = Drain(buffer).batch
            /\ buffer' = Drain(buffer).rest
            /\ final_flushes' = final_flushes + 1
            /\ pc' = IF Len(Drain(buffer).batch) = 0 THEN "exited" ELSE "final"
       ELSE /\ pc' = "exited"
            /\ UNCHANGED <<buffer, records_to_flush, final_flushes>>
    /\ retry_count' = 0
    /\ slept' = 0
    /\ UNCHANGED <<config_vars, row_vars, error_vars, decoder_vars, codec_vars, channel, senders_open, closed_with_rows, elapsed,
                   consecutive_errors, flush_site, last_insert, last_submission, timer_vars,
                   handler_vars,
                   received, submitted>>

\* select!, branch 1, None: every sender is dropped and the channel is empty
RecvClosed ==
    /\ pc = "select"
    /\ channel = <<>>
    /\ ~senders_open
    /\ IF buffer # <<>> /\ ~skip_upload
       THEN /\ records_to_flush' = Drain(buffer).batch
            /\ buffer' = Drain(buffer).rest
            /\ final_flushes' = final_flushes + 1
            /\ pc' = IF Len(Drain(buffer).batch) = 0 THEN "exited" ELSE "final"
       ELSE /\ pc' = "exited"
            /\ UNCHANGED <<buffer, records_to_flush, final_flushes>>
    /\ retry_count' = 0
    /\ slept' = 0
    /\ UNCHANGED <<config_vars, row_vars, error_vars, decoder_vars, codec_vars, channel, senders_open, closed_with_rows, elapsed,
                   consecutive_errors, flush_site, last_insert, last_submission, timer_vars,
                   handler_vars,
                   received, submitted>>

\* select!, branch 2: the inactivity timer ticked
HandleTick ==
    /\ pc = "select"
    /\ tick_pending
    /\ tick_pending' = FALSE
    /\ IF FlushDue
       THEN BeginFlush("tick")
       ELSE /\ pc' = "loop"
            /\ UNCHANGED <<buffer, records_to_flush, retry_count, slept, flush_site>>
    /\ UNCHANGED <<config_vars, row_vars, error_vars, decoder_vars, codec_vars, channel, senders_open, closed_with_rows, elapsed,
                   consecutive_errors, last_insert, last_submission, final_flushes, timer_pc,
                   handler_vars,
                   received, submitted>>

\* flush_records: the insert of the batch succeeds
InsertOk ==
    /\ pc = "flush"
    /\ Submit
    /\ last_insert' = "ok"
    /\ consecutive_errors' = 0
    /\ elapsed' = 0
    /\ EndFlush
    /\ UNCHANGED <<config_vars, row_vars, error_vars, decoder_vars, codec_vars, channel, senders_open, closed_with_rows, buffer,
                   final_flushes, timer_vars, handler_vars,
                   received>>

\* a flush that gives up only when retry_count exceeds max_retries
InsertErrOneMoreAttempt ==
    /\ pc = "flush"
    /\ Submit
    /\ last_insert' = "err"
    /\ IF retry_count + 1 > FlushMaxRetries
       THEN /\ consecutive_errors < MaxErrors
            /\ consecutive_errors' = consecutive_errors + 1
            /\ elapsed' = 0
            /\ EndFlush
       ELSE /\ retry_count' = retry_count + 1
            /\ pc' = "backoff"
            /\ UNCHANGED <<consecutive_errors, elapsed, records_to_flush, slept,
                           flush_site>>
    /\ UNCHANGED <<config_vars, row_vars, error_vars, decoder_vars, codec_vars, channel, senders_open, closed_with_rows, buffer,
                   final_flushes, timer_vars, handler_vars,
                   received>>

\* flush_records: the insert fails; back off, or drop the batch after the
\* last attempt
InsertErr ==
    /\ pc = "flush"
    /\ Submit
    /\ last_insert' = "err"
    /\ IF retry_count + 1 >= FlushMaxRetries
       THEN /\ consecutive_errors < MaxErrors
            /\ consecutive_errors' = consecutive_errors + 1
            /\ elapsed' = 0
            /\ EndFlush
       ELSE /\ retry_count' = retry_count + 1
            /\ pc' = "backoff"
            /\ UNCHANGED <<consecutive_errors, elapsed, records_to_flush, slept,
                           flush_site>>
    /\ UNCHANGED <<config_vars, row_vars, error_vars, decoder_vars, codec_vars, channel, senders_open, closed_with_rows, buffer,
                   final_flushes, timer_vars, handler_vars,
                   received>>

\* flush_records: sleep(backoff_duration), then the next attempt
Backoff ==
    /\ pc = "backoff"
    /\ Sleep(BackoffDuration(retry_count))
    /\ slept' = slept + BackoffDuration(retry_count)
    /\ pc' = "flush"
    /\ UNCHANGED <<config_vars, row_vars, error_vars, decoder_vars, codec_vars, channel, senders_open, closed_with_rows, buffer,
                   consecutive_errors, records_to_flush, retry_count, flush_site,
                   last_insert, last_submission, final_flushes, tick_pending, handler_vars,
                   received, submitted>>

\* final_flush: the insert succeeds; the processor leaves its loop
FinalInsertOk ==
    /\ pc = "final"
    /\ Submit
    /\ last_insert' = "ok"
    /\ pc' = "exited"
    /\ records_to_flush' = <<>>
    /\ retry_count' = 0
    /\ slept' = 0
    /\ UNCHANGED <<config_vars, row_vars, error_vars, decoder_vars, codec_vars, channel, senders_open, closed_with_rows, buffer,
                   elapsed, consecutive_errors, flush_site, final_flushes,
                   timer_vars, handler_vars,
                   received>>

\* a final flush that returns after the last failed attempt
FinalInsertErrReturns ==
    /\ pc = "final"
    /\ Submit
    /\ last_insert' = "err"
    /\ retry_count' = retry_count + 1
    /\ pc' = IF retry_count + 1 >= FinalMaxRetries THEN "exited" ELSE "final_backoff"
    /\ UNCHANGED <<config_vars, row_vars, error_vars, decoder_vars, codec_vars, channel, senders_open, closed_with_rows, buffer,
                   elapsed, consecutive_errors, records_to_flush, slept, flush_site,
                   final_flushes, timer_vars, handler_vars,
                   received>>

\* final_flush: the insert fails; back off, or panic after the last attempt
FinalInsertErr ==
    /\ pc = "final"
    /\ Submit
    /\ last_insert' = "err"
    /\ retry_count' = retry_count + 1
    /\ pc' = IF retry_count + 1 >= FinalMaxRetries THEN "panicked" ELSE "final_backoff"
    /\ UNCHANGED <<config_vars, row_vars, error_vars, decoder_vars, codec_vars, channel, senders_open, closed_with_rows, buffer,
                   elapsed, consecutive_errors, records_to_flush, slept, flush_site,
                   final_flushes, timer_vars, handler_vars,
                   received>>

\* final_flush: sleep(backoff_duration), then the next attempt
FinalBackoff ==
    /\ pc = "final_backoff"
    /\ Sleep(BackoffDuration(retry_count))
    /\ slept' = slept + BackoffDuration(retry_count)
    /\ pc' = "final"
    /\ UNCHANGED <<config_vars, row_vars, error_vars, decoder_vars, codec_vars, channel, senders_open, closed_with_rows, buffer,
                   consecutive_errors, records_to_flush, retry_count, flush_site,
                   last_insert, last_submission, final_flushes, tick_pending, handler_vars,
                   received, submitted>>

\* ------------------------------------------------------------------------
\* Timer task and the passing of time
\* ------------------------------------------------------------------------
\* one second passes; a sleeping timer task wakes up
TimePasses ==
    /\ Sleep(TimerPeriod)
    /\ UNCHANGED <<config_vars, row_vars, error_vars, decoder_vars, codec_vars, channel, senders_open, closed_with_rows, pc, buffer,
                   consecutive_errors, records_to_flush, retry_count, slept,
                   flush_site, last_insert, last_submission, final_flushes, tick_pending,
                   handler_vars,
                   received, submitted>>

\* a timer task whose send never fails: it goes on waiting for the slot
TimerSendNeverFails ==
    /\ timer_pc = "sending"
    /\ ~tick_pending
    /\ tick_pending' = TRUE
    /\ timer_pc' = "sleeping"
    /\ UNCHANGED <<config_vars, row_vars, error_vars, decoder_vars, codec_vars, channel, senders_open, closed_with_rows,
                   batcher_vars, handler_vars>>

\* inactivity_tx_clone.send(()): waits for the slot of the capacity-1
\* channel, fails once the processor has dropped the receiver
TimerSend ==
    /\ timer_pc = "sending"
    /\ IF BatcherEnded
       THEN /\ timer_pc' = "stopped"
            /\ UNCHANGED tick_pending
       ELSE /\ ~tick_pending
            /\ tick_pending' = TRUE
            /\ timer_pc' = "sleeping"
    /\ UNCHANGED <<config_vars, row_vars, error_vars, decoder_vars, codec_vars, channel, senders_open, closed_with_rows,
                   batcher_vars, handler_vars>>

\* ------------------------------------------------------------------------
\* Request handlers: JsonLineProcessor::process_stream for the ingest
\* endpoints, generate_presigned_urls for the files endpoint
\* ------------------------------------------------------------------------
\* the payloads of a presign request
FileInputs == {[log_name |-> n, file_name |-> "f.bin"] : n \in LogNames}
Payloads == UNION {[1..k -> FileInputs] : k \in 0..MaxFiles}

\* a total that counts lines, not rows
AddOne(total, count) == total + 1

\* total_processed += count
AddCount(total, count) == total + count

\* format!("Stream processed successfully: {} records", final_count)
Summary(final_count) == [code |-> "OK", n |-> final_count]

\* the error a failed channel send is mapped to
SendErrorCode(t) == IF t = "files" THEN "INTERNAL_ERROR" ELSE "STREAM_PROCESSING_ERROR"

\* the error the route hands to axum for the error err of its handler:
\* the ingest routes wrap every error of process_stream
MapErr(t, err) == IF t = "files" THEN err ELSE "PROCESSING_FAILED"

\* the HTTP response to the handler's result: 200 with the summary, the
\* status and code of AppError::into_response, or none after a panic;
\* code keeps the handler's own result
IntoResponse(t, res) ==
    IF res.code = "OK"
    THEN [code |-> "OK", n |-> res.n, status |-> 200, error |-> "NONE"]
    ELSE IF res.code = "PANIC"
    THEN [code |-> "PANIC", n |-> 0, status |-> 0, error |-> "NONE"]
    ELSE [code |-> res.code, n |-> 0, status |-> StatusCode(MapErr(t, res.code)),
          error |-> MapErr(t, res.code)]

\* a handler that notes an error and goes on reading
RespondAndContinue(r, resp) ==
    /\ hpc' = [hpc EXCEPT ![r] = IF resp.code = "OK" THEN "done" ELSE "stream"]
    /\ response' = [response EXCEPT ![r] = IntoResponse(row_type, resp)]

\* the handler of request r returns resp
Respond(r, resp) ==
    /\ hpc' = [hpc EXCEPT ![r] = "done"]
    /\ response' = [response EXCEPT ![r] = IntoResponse(row_type, resp)]

\* request r has read the events es of its input
Consume(r, es) == consumed' = [consumed EXCEPT ![r] = consumed[r] \o es]

\* an ingest handler that reads its body whatever from_headers returned
BeginWithoutEnrichment(r) ==
    /\ hpc[r] = "idle"
    /\ headers[r] # NoRequest
    /\ senders_open
    /\ row_type # "files"
    /\ \E db_ok \in BOOLEAN :
         /\ LET a == Auth(headers[r], db_ok)
                e == FromHeaders(row_type, a.tenant_id, headers[r])
            IN  IF ~a.ok
                THEN /\ Respond(r, [code |-> a.code, n |-> 0])
                     /\ UNCHANGED enrichment
                ELSE /\ hpc' = [hpc EXCEPT ![r] = "stream"]
                     /\ enrichment' =
                          [enrichment EXCEPT ![r] =
                             IF e.ok THEN e.enrichment
                             ELSE [tenant_id |-> a.tenant_id, run_id |-> 0,
                                   project_name |-> headers[r].project_name]]
                     /\ UNCHANGED response
         /\ Consume(r, <<[kind |-> "lookup", db_ok |-> db_ok]>>)
    /\ UNCHANGED <<config_vars, row_vars, error_vars, decoder_vars, codec_vars, log_files, channel, senders_open, closed_with_rows,
                   batcher_vars, timer_vars, line_counter, total_processed,
                   processed_in_task, rows, in_remaining, raw_data, sent, headers>>

\* process_stream up to the first read of the body: auth, enrichment
Begin(r) ==
    /\ hpc[r] = "idle"
    /\ headers[r] # NoRequest
    /\ senders_open
    /\ row_type # "files"
    /\ \E db_ok \in BOOLEAN :
         /\ LET a == Auth(headers[r], db_ok)
                e == FromHeaders(row_type, a.tenant_id, headers[r])
            IN  IF ~a.ok
                THEN /\ Respond(r, [code |-> a.code, n |-> 0])
                     /\ UNCHANGED enrichment
                ELSE IF ~e.ok
                THEN /\ Respond(r, [code |-> e.code, n |-> 0])
                     /\ UNCHANGED enrichment
                ELSE /\ hpc' = [hpc EXCEPT ![r] = "stream"]
                     /\ enrichment' = [enrichment EXCEPT ![r] = e.enrichment]
                     /\ UNCHANGED response
         /\ Consume(r, <<[kind |-> "lookup", db_ok |-> db_ok]>>)
    /\ UNCHANGED <<config_vars, row_vars, error_vars, decoder_vars, codec_vars, log_files, channel, senders_open, closed_with_rows,
                   batcher_vars, timer_vars, line_counter, total_processed,
                   processed_in_task, rows, in_remaining, raw_data, sent, headers>>

\* rows that take the enrichment of the first request once it has one
WithFirstEnrichment(row, e) ==
    LET first == IF enrichment[1] # NoEnrichment THEN enrichment[1] ELSE e
    IN  [req |-> row.req, line |-> row.line, fields |-> row.fields,
         tenant_id |-> first.tenant_id, run_id |-> first.run_id,
         project_name |-> first.project_name]

\* the row of FilesRow::from, LogRow::from, DataRow::from or of the closure
\* of MetricInput::into_rows: the input's fields and the enrichment triple
WithEnrichment(row, e) ==
    [req |-> row.req, line |-> row.line, fields |-> row.fields,
     tenant_id |-> e.tenant_id, run_id |-> e.run_id, project_name |-> e.project_name]

\* parse, validate and convert the non-empty trimmed line ln, read as line
\* number l; rem tells the trailing unterminated line
ProcessLine(r, ln, l, rem) ==
    /\ line_counter' = [line_counter EXCEPT ![r] = l]
    /\ IF ln.kind = "garbage"
       THEN /\ Respond(r, [code |-> "STREAM_DECODING_ERROR", n |-> 0])
            /\ UNCHANGED <<rows, raw_data, in_remaining, processed_in_task>>
       ELSE /\ raw_data' = [raw_data EXCEPT ![r] = ln.input]
            /\ IF Validate(row_type, ln.input) # "OK"
               THEN /\ Respond(r, [code |-> Validate(row_type, ln.input), n |-> 0])
                    /\ UNCHANGED <<rows, in_remaining, processed_in_task>>
               ELSE /\ \E rs \in IntoRows(row_type, ln.input, r, l) :
                         rows' = [rows EXCEPT ![r] =
                                    [i \in DOMAIN rs |->
                                       WithEnrichment(rs[i], enrichment[r])]]
                    /\ in_remaining' = [in_remaining EXCEPT ![r] = rem]
                    /\ processed_in_task' = [processed_in_task EXCEPT ![r] = 0]
                    /\ hpc' = [hpc EXCEPT ![r] = "sending"]
                    /\ UNCHANGED response

\* the chunk loop finds a newline: one more line of the body
NextLine(r) ==
    /\ hpc[r] = "stream"
    /\ line_counter[r] < MaxLines
    /\ \E ln \in Lines(row_type) :
         /\ IF ln.kind = "blank"
            THEN /\ line_counter' = [line_counter EXCEPT ![r] = line_counter[r] + 1]
                 /\ UNCHANGED <<hpc, response, rows, raw_data, in_remaining,
                                processed_in_task>>
            ELSE ProcessLine(r, ln, line_counter[r] + 1, FALSE)
         /\ Consume(r, <<[kind |-> "line", ln |-> ln]>>)
    /\ UNCHANGED <<config_vars, row_vars, error_vars, decoder_vars, codec_vars, log_files, channel, senders_open, closed_with_rows,
                   batcher_vars, timer_vars, total_processed, sent, headers,
                   enrichment>>

\* the body stream ends: the bytes left in line_buffer are the last line
EndOfStream(r) ==
    /\ hpc[r] = "stream"
    /\ \E ln \in Lines(row_type) :
         /\ IF ln.kind = "blank"
            THEN /\ Respond(r, Summary(total_processed[r]))
                 /\ UNCHANGED <<line_counter, rows, raw_data, in_remaining,
                                processed_in_task>>
            ELSE ProcessLine(r, ln, line_counter[r] + 1, TRUE)
         /\ Consume(r, <<[kind |-> "end", ln |-> ln]>>)
    /\ UNCHANGED <<config_vars, row_vars, error_vars, decoder_vars, codec_vars, log_files, channel, senders_open, closed_with_rows,
                   batcher_vars, timer_vars, total_processed, sent, headers,
                   enrichment>>

\* a read error that also takes the request's rows off the channel
ChunkErrorDiscardsQueued(r) ==
    /\ hpc[r] = "stream"
    /\ Respond(r, [code |-> "STREAM_PROCESSING_ERROR", n |-> 0])
    /\ Consume(r, <<[kind |-> "chunk_error"]>>)
    /\ channel' = SelectSeq(channel, LAMBDA row : row.req # r)
    /\ UNCHANGED <<config_vars, row_vars, error_vars, decoder_vars, codec_vars, log_files, senders_open, closed_with_rows,
                   batcher_vars, timer_vars, line_counter, total_processed,
                   processed_in_task, rows, in_remaining, raw_data, sent,
                   headers, enrichment>>

\* stream.next() yields an error: the body cannot be read any further
ChunkError(r) ==
    /\ hpc[r] = "stream"
    /\ Respond(r, [code |-> "STREAM_PROCESSING_ERROR", n |-> 0])
    /\ Consume(r, <<[kind |-> "chunk_error"]>>)
    /\ UNCHANGED <<config_vars, row_vars, error_vars, decoder_vars, codec_vars, log_files, channel, senders_open, closed_with_rows,
                   batcher_vars, timer_vars, line_counter, total_processed,
                   processed_in_task, rows, in_remaining, raw_data, sent,
                   headers, enrichment>>

\* generate_presigned_urls up to the send loop: auth, enrichment, payload
FilesBegin(r) ==
    /\ hpc[r] = "idle"
    /\ headers[r] # NoRequest
    /\ senders_open
    /\ row_type = "files"
    /\ \E db_ok \in BOOLEAN, payload \in Payloads :
         /\ LET a == Auth(headers[r], db_ok)
                e == FromHeaders(row_type, a.tenant_id, headers[r])
            IN  IF ~a.ok
                THEN /\ Respond(r, [code |-> a.code, n |-> 0])
                     /\ UNCHANGED <<rows, raw_data, enrichment>>
                ELSE IF ~e.ok
                THEN /\ Respond(r, [code |-> e.code, n |-> 0])
                     /\ UNCHANGED <<rows, raw_data, enrichment>>
                ELSE /\ enrichment' = [enrichment EXCEPT ![r] = e.enrichment]
                     /\ raw_data' = [raw_data EXCEPT ![r] = [files |-> payload]]
                     /\ rows' = [rows EXCEPT ![r] =
                                   [i \in DOMAIN payload |->
                                      WithEnrichment(
                                        [req |-> r, line |-> i, fields |-> payload[i]],
                                        e.enrichment)]]
                     /\ hpc' = [hpc EXCEPT ![r] =
                                  IF payload = <<>> THEN "presign" ELSE "sending"]
                     /\ UNCHANGED response
         /\ Consume(r, <<[kind |-> "lookup", db_ok |-> db_ok],
                          [kind |-> "payload", files |-> payload]>>)
    /\ UNCHANGED <<config_vars, row_vars, error_vars, decoder_vars, codec_vars, log_files, channel, senders_open, closed_with_rows,
                   batcher_vars, timer_vars, line_counter, total_processed,
                   processed_in_task, in_remaining, sent, headers>>

\* a channel that takes one row more than its capacity
HasCapacityInclusive(ch) == Len(ch) <= ChannelCapacity

\* the channel has a free slot for a send
HasCapacity(ch) == Len(ch) < ChannelCapacity

\* a channel that hands out the newest row first
EnqueueFront(ch, row) == <<row>> \o ch

\* the channel after a completed send
Enqueue(ch, row) == Append(ch, row)

\* record_sender.send(row).await: fails when the receiver is gone, waits
\* while the channel is full; after the last row of a line the line's count
\* is added to the total
SendRow(r) ==
    /\ hpc[r] = "sending"
    /\ IF BatcherEnded
       THEN /\ Respond(r, [code |-> SendErrorCode(row_type), n |-> 0])
            /\ UNCHANGED <<channel, sent, rows, processed_in_task, total_processed,
                           raw_data>>
       ELSE /\ HasCapacity(channel)
            /\ channel' = Enqueue(channel, Head(rows[r]))
            /\ sent' = [sent EXCEPT ![r] = Append(sent[r], Head(rows[r]))]
            /\ rows' = [rows EXCEPT ![r] = Tail(rows[r])]
            /\ IF Len(rows[r]) > 1
               THEN /\ processed_in_task' =
                          [processed_in_task EXCEPT ![r] = processed_in_task[r] + 1]
                    /\ UNCHANGED <<hpc, response, total_processed, raw_data>>
               ELSE /\ processed_in_task' = [processed_in_task EXCEPT ![r] = 0]
                    /\ raw_data' = [raw_data EXCEPT ![r] =
                                      IF row_type = "files" THEN raw_data[r] ELSE NoInput]
                    /\ total_processed' =
                          [total_processed EXCEPT ![r] =
                             AddCount(total_processed[r], processed_in_task[r] + 1)]
                    /\ IF row_type = "files"
                       THEN /\ hpc' = [hpc EXCEPT ![r] = "presign"]
                            /\ UNCHANGED response
                       ELSE IF in_remaining[r]
                            THEN Respond(r, Summary(total_processed'[r]))
                            ELSE /\ hpc' = [hpc EXCEPT ![r] = "stream"]
                                 /\ UNCHANGED response
    /\ UNCHANGED <<config_vars, row_vars, error_vars, decoder_vars, codec_vars, log_files, senders_open, closed_with_rows, batcher_vars,
                   timer_vars, line_counter, in_remaining, headers,
                   enrichment, consumed>>

\* the object key of a file: tenant/project/run/logName/fileName; the
\* presigned URL of a file is the URL of its key
ObjectKey(e, file) ==
    [tenant |-> e.tenant_id, project |-> e.project_name, run |-> e.run_id,
     log_name |-> file.log_name, file_name |-> file.file_name]

\* the results of the URL futures, in the order of payload.files
UrlResults(e, files) ==
    [i \in DOMAIN files |->
        [log_name |-> files[i].log_name, file_name |-> files[i].file_name,
         url |-> ObjectKey(e, files[i])]]

\* an entry that replaces the list of its log name
Insert(m, result) ==
    LET file_map == [file_name |-> result.file_name, url |-> result.url]
    IN IF result.log_name \in DOMAIN m
       THEN [m EXCEPT ![result.log_name] = <<file_map>>]
       ELSE m @@ (result.log_name :> <<file_map>>)

\* log_files.entry(log_name).or_default().push(file_map), file_map the map
\* of the one pair (file_name, url)
Push(m, result) ==
    LET file_map == [file_name |-> result.file_name, url |-> result.url]
    IN IF result.log_name \in DOMAIN m
       THEN [m EXCEPT ![result.log_name] = Append(@, file_map)]
       ELSE m @@ (result.log_name :> <<file_map>>)

\* the loop over the results, grouping the URLs by log name
RECURSIVE GroupByLogName(_, _)
GroupByLogName(results, m) ==
    IF results = <<>> THEN m
    ELSE GroupByLogName(Tail(results), Push(m, Head(results)))

\* a presign whose failure takes the request's rows back off the channel
PresignOrUnqueue(r) ==
    /\ hpc[r] = "presign"
    /\ \E code \in {"OK", "INTERNAL_ERROR"} :
         /\ Respond(r, [code |-> code, n |-> 0])
         /\ Consume(r, <<[kind |-> "presign", code |-> code]>>)
         /\ log_files' = [log_files EXCEPT ![r] =
                            IF code = "OK"
                            THEN GroupByLogName(
                                   UrlResults(enrichment[r], raw_data[r].files), <<>>)
                            ELSE <<>>]
         /\ channel' = IF code = "OK" THEN channel
                       ELSE SelectSeq(channel, LAMBDA row : row.req # r)
    /\ UNCHANGED <<config_vars, row_vars, error_vars, decoder_vars, codec_vars, senders_open, closed_with_rows,
                   batcher_vars, timer_vars, line_counter, total_processed,
                   processed_in_task, rows, in_remaining, raw_data, sent,
                   headers, enrichment>>

\* generate_presigned_urls after the send loop: the presigned URLs are
\* requested and the grouped response is returned, or a presign fails
Presign(r) ==
    /\ hpc[r] = "presign"
    /\ \E code \in {"OK", "INTERNAL_ERROR"} :
         /\ Respond(r, [code |-> code, n |-> 0])
         /\ Consume(r, <<[kind |-> "presign", code |-> code]>>)
         /\ log_files' = [log_files EXCEPT ![r] =
                            IF code = "OK"
                            THEN GroupByLogName(
                                   UrlResults(enrichment[r], raw_data[r].files), <<>>)
                            ELSE <<>>]
    /\ UNCHANGED <<config_vars, row_vars, error_vars, decoder_vars, codec_vars, channel, senders_open, closed_with_rows,
                   batcher_vars, timer_vars, line_counter, total_processed,
                   processed_in_task, rows, in_remaining, raw_data, sent,
                   headers, enrichment>>

\* every Sender of the channel is dropped: the application state and the
\* handlers, which hold clones, are gone
CloseChannel ==
    /\ senders_open
    /\ \A r \in Reqs : hpc[r] \in {"idle", "done"}
    /\ senders_open' = FALSE
    /\ closed_with_rows' = (buffer # <<>>)
    /\ UNCHANGED <<config_vars, row_vars, error_vars, decoder_vars, codec_vars, channel, batcher_vars, timer_vars, handler_vars>>

\* the processor task is cancelled while Senders of its channel exist (the
\* runtime shuts down): the Receiver is dropped and every later send fails
ReceiverDropped ==
    /\ senders_open
    /\ ~BatcherEnded
    /\ pc' = "cancelled"
    /\ UNCHANGED <<config_vars, row_vars, error_vars, decoder_vars, codec_vars, channel, senders_open, closed_with_rows, buffer,
                   elapsed, consecutive_errors, records_to_flush, retry_count,
                   slept, flush_site, last_insert, last_submission, final_flushes, received,
                   submitted, timer_vars, handler_vars>>

Batcher ==
    \/ Precheck
    \/ RecvRecord
    \/ RecvClosed
    \/ HandleTick
    \/ InsertOk
    \/ InsertErr
    \/ Backoff
    \/ FinalInsertOk
    \/ FinalInsertErr
    \/ FinalBackoff

Handler(r) ==
    \/ Begin(r)
    \/ NextLine(r)
    \/ EndOfStream(r)
    \/ ChunkError(r)
    \/ FilesBegin(r)
    \/ SendRow(r)
    \/ Presign(r)

Next ==
    \/ Batcher
    \/ TimePasses
    \/ TimerSend
    \/ CloseChannel
    \/ \E r \in Reqs : Handler(r)

Spec == Init /\ [][Next]_vars

\* The pipeline of one ingest endpoint with a single-row input type, under
\* every batcher configuration: the background processor never looks into
\* a row, so its behaviour does not depend on the row type.
IngestNext ==
    \/ Batcher
    \/ TimePasses
    \/ TimerSend
    \/ CloseChannel
    \/ \E r \in Reqs :
          Begin(r) \/ NextLine(r) \/ EndOfStream(r) \/ ChunkError(r) \/ SendRow(r)

\* the log pipeline, under every batcher configuration, with one client
\* whose headers are accepted
BatcherInit ==
    /\ row_type = "logs"
    /\ headers = [r \in Reqs |-> IF r = 1 THEN GoodHeaders("Bearer k1", "7")
                                          ELSE NoRequest]
    /\ Init

BatcherSpec == BatcherInit /\ [][IngestNext]_vars

\* The pipelines of all four row types under one batcher configuration
\* with uploads enabled: the handlers never read the configuration.
HandlerInit ==
    /\ batch_size = 2
    /\ flush_interval = MaxInterval
    /\ skip_upload = FALSE
    /\ row_type \in RowTypes
    /\ headers \in {hs \in [Reqs -> HeaderMaps \cup {NoRequest}] :
                       /\ hs[2] = NoRequest
                       /\ hs[1] # NoRequest
                       /\ AcceptedBy(row_type, hs[1]) =>
                             hs[1] = GoodHeaders("Bearer k1", "7")}
    /\ Init

HandlerSpec == HandlerInit /\ [][Next]_vars

\* The pipelines of the single-row input types under the scheduling the runtime
\* gives: every task that can run does run, time passes, and select!
\* picks at random among its ready branches, so a branch that is ready
\* again and again is taken.
IngestInit ==
    /\ row_type \in {"logs", "data"}
    /\ headers = [r \in Reqs |-> IF r = 1 THEN GoodHeaders("Bearer k1", "7")
                                          ELSE NoRequest]
    /\ HandlerInit

FairIngestSpec ==
    /\ IngestInit /\ [][IngestNext]_vars
    /\ WF_vars(Batcher) /\ SF_vars(RecvRecord) /\ SF_vars(HandleTick)
    /\ WF_vars(TimePasses) /\ WF_vars(TimerSend)
    /\ \A r \in Reqs : WF_vars(SendRow(r))

\* Two clients of different tenants send to the same pipeline at the same
\* time; the requests differ in tenant and run id.  The writer accepts
\* every batch, the bodies are read without error and no time passes (the
\* flushes are those of the size trigger and of shutdown): the
\* specification is about the interleaving of the two senders with the
\* processor.
ConcurrentNext ==
    \/ Precheck
    \/ RecvRecord
    \/ RecvClosed
    \/ InsertOk
    \/ FinalInsertOk
    \/ CloseChannel
    \/ \E r \in Reqs : Begin(r) \/ NextLine(r) \/ EndOfStream(r) \/ SendRow(r)

ConcurrentInit ==
    /\ row_type = "logs"
    /\ batch_size = 2
    /\ flush_interval = MaxInterval
    /\ skip_upload = FALSE
    /\ headers = [r \in Reqs |-> IF r = 1 THEN GoodHeaders("Bearer k1", "7")
                                          ELSE GoodHeaders("Bearer k2", "abc")]
    /\ Init

ConcurrentSpec == ConcurrentInit /\ [][ConcurrentNext]_vars

\* The pipelines of one client whose headers are accepted, where the
\* processor task can be cancelled, dropping its Receiver, while Senders
\* exist.
ReceiverDroppedInit ==
    /\ row_type \in {"logs", "files"}
    /\ batch_size = 2
    /\ flush_interval = MaxInterval
    /\ skip_upload = FALSE
    /\ headers = [r \in Reqs |-> IF r = 1 THEN GoodHeaders("Bearer k1", "7")
                                          ELSE NoRequest]
    /\ Init

ReceiverDroppedSpec == ReceiverDroppedInit /\ [][Next \/ ReceiverDropped]_vars

\* ------------------------------------------------------------------------
\* The line decoder of process_stream, byte by byte
\* ------------------------------------------------------------------------
\* the bytes of a body: space, tab, CR, LF, and "{" for every other byte
BodyBytes == {" ", "\t", "\r", "\n", "{"}

Bodies == UNION {[1..n -> BodyBytes] : n \in 0..MaxBody}

\* the chunks a body is cut into at the given positions
RECURSIVE ChunksAt(_, _)
ChunksAt(b, cuts) ==
    IF cuts = {}
    THEN IF b = <<>> THEN <<>> ELSE <<b>>
    ELSE LET c == CHOOSE k \in cuts : \A j \in cuts : k <= j
         IN <<SubSeq(b, 1, c)>>
              \o ChunksAt(SubSeq(b, c + 1, Len(b)), {k - c : k \in cuts \ {c}})

\* the ways the transport can deliver a body as non-empty chunks
Chunkings(b) == {ChunksAt(b, cuts) : cuts \in SUBSET (1..(Len(b) - 1))}

\* iter().position(pred), pred given as the set of the bytes it accepts;
\* 0-based, -1 stands for None
Position(s, accepted) ==
    LET idx == {i \in 1..Len(s) : s[i] \in accepted}
    IN IF idx = {} THEN -1 ELSE (CHOOSE i \in idx : \A j \in idx : i <= j) - 1

\* iter().rposition(pred), 0-based; -1 stands for None
RPosition(s, accepted) ==
    LET idx == {i \in 1..Len(s) : s[i] \in accepted}
    IN IF idx = {} THEN -1 ELSE (CHOOSE i \in idx : \A j \in idx : i >= j) - 1

IsNewline == {"\n"}
NotSpaceOrTab == BodyBytes \ {" ", "\t"}
NotWhitespace == BodyBytes \ {"\r", "\n", " ", "\t"}

\* start: position(not space or tab).unwrap_or(0)
TrimStart(line) ==
    LET p == Position(line, NotSpaceOrTab) IN IF p = -1 THEN 0 ELSE p

\* end: rposition(not CR, LF, space or tab).map_or(0, |p| p + 1)
TrimEnd(line) ==
    LET p == RPosition(line, NotWhitespace) IN IF p = -1 THEN 0 ELSE p + 1

\* line_bytes_mut[start..end]
TrimmedSlice(line) == SubSeq(line, TrimStart(line) + 1, TrimEnd(line))

\* a drain that forgets what the chunk held after the newline
DrainThroughAndClear(buf, pos) ==
    [line |-> SubSeq(buf, 1, pos + 1), rest |-> <<>>]

\* line_buffer.drain(..=pos): the line with its newline, and what stays
DrainThrough(buf, pos) ==
    [line |-> SubSeq(buf, 1, pos + 1), rest |-> SubSeq(buf, pos + 2, Len(buf))]

\* the segment is trimmed and, unless nothing is left, its slice is handed
\* to simd_json::from_slice
HandToParser(segment) ==
    IF TrimStart(segment) >= TrimEnd(segment)
    THEN UNCHANGED parsed
    ELSE parsed' = Append(parsed, [segment |-> segment,
                                   slice |-> TrimmedSlice(segment)])

pipeline_vars == <<config_vars, channel, senders_open, closed_with_rows,
                   batcher_vars, timer_vars, handler_vars>>

\* stream.next() yields a chunk, appended to line_buffer
ReadChunk ==
    /\ dpc = "read"
    /\ chunks_read < Len(chunks)
    /\ chunks_read' = chunks_read + 1
    /\ line_buffer' = line_buffer \o chunks[chunks_read + 1]
    /\ dpc' = "lines"
    /\ UNCHANGED <<pipeline_vars, row_vars, error_vars, codec_vars, chunks, parsed>>

\* stream.next() yields an error: process_stream returns at once
ReadFails ==
    /\ dpc = "read"
    /\ dpc' = "failed"
    /\ UNCHANGED <<pipeline_vars, row_vars, error_vars, codec_vars, chunks, chunks_read, line_buffer, parsed>>

\* one turn of the inner loop: the bytes up to the first newline are
\* drained, trimmed and, unless empty, parsed; a line that does not parse
\* or validate makes process_stream return
DrainLine ==
    /\ dpc = "lines"
    /\ Position(line_buffer, IsNewline) # -1
    /\ LET d == DrainThrough(line_buffer, Position(line_buffer, IsNewline))
       IN /\ line_buffer' = d.rest
          /\ HandToParser(d.line)
          /\ \E ok \in BOOLEAN :
                dpc' = IF ok \/ TrimStart(d.line) >= TrimEnd(d.line)
                       THEN "lines" ELSE "failed"
    /\ UNCHANGED <<pipeline_vars, row_vars, error_vars, codec_vars, chunks, chunks_read>>

\* line_buffer holds no newline: the inner loop ends
AwaitChunk ==
    /\ dpc = "lines"
    /\ Position(line_buffer, IsNewline) = -1
    /\ dpc' = "read"
    /\ UNCHANGED <<pipeline_vars, row_vars, error_vars, codec_vars, chunks, chunks_read, line_buffer, parsed>>

\* stream.next() yields None: what line_buffer still holds is drained,
\* trimmed and, unless empty, parsed
DrainRemaining ==
    /\ dpc = "read"
    /\ chunks_read = Len(chunks)
    /\ line_buffer' = <<>>
    /\ HandToParser(line_buffer)
    /\ \E ok \in BOOLEAN :
          dpc' = IF ok \/ TrimStart(line_buffer) >= TrimEnd(line_buffer)
                 THEN "done" ELSE "failed"
    /\ UNCHANGED <<pipeline_vars, row_vars, error_vars, codec_vars, chunks, chunks_read>>

DecoderNext ==
    \/ ReadChunk
    \/ ReadFails
    \/ DrainLine
    \/ AwaitChunk
    \/ DrainRemaining

\* the body of one request, delivered in any chunking
DecoderStart ==
    /\ chunks \in UNION {Chunkings(b) : b \in Bodies}
    /\ chunks_read = 0
    /\ line_buffer = <<>>
    /\ parsed = <<>>
    /\ dpc = "read"

\* process_stream decoding the body of one log request
DecoderInit ==
    /\ row_type = "logs"
    /\ batch_size = 2
    /\ flush_interval = MaxInterval
    /\ skip_upload = FALSE
    /\ headers = [r \in Reqs |-> IF r = 1 THEN GoodHeaders("Bearer k1", "7")
                                          ELSE NoRequest]
    /\ PipelineInit
    /\ DecoderStart
    /\ CodecIdle
    /\ NoAppError
    /\ NoRowBuilt

DecoderSpec == DecoderInit /\ [][DecoderNext]_vars


\* ------------------------------------------------------------------------
\* FileType: Deserialize, from_str, Serialize
\* ------------------------------------------------------------------------
\* the unit variants of the enum, by their names in the source
UnitVariants ==
    {"Jpeg", "Jpg", "Png", "Gif", "Svg", "Webp", "Mp4", "Webm", "Avi", "Mov",
     "Mp3", "Wav", "Ogg", "Pdf", "Doc", "Docx", "Xls", "Xlsx", "Txt", "Json",
     "Csv", "Xml", "Yaml", "Onnx", "Pkl", "H5", "TfLite", "SavedModel", "Pt",
     "Ckpt"}

\* the arms of the match in from_str
ExtensionTable ==
    [jpeg |-> "Jpeg", jpg |-> "Jpg", png |-> "Png", gif |-> "Gif", svg |-> "Svg",
     webp |-> "Webp", mp4 |-> "Mp4", webm |-> "Webm", avi |-> "Avi", mov |-> "Mov",
     mp3 |-> "Mp3", wav |-> "Wav", ogg |-> "Ogg", pdf |-> "Pdf", doc |-> "Doc",
     docx |-> "Docx", xls |-> "Xls", xlsx |-> "Xlsx", txt |-> "Txt",
     json |-> "Json", csv |-> "Csv", xml |-> "Xml", yaml |-> "Yaml",
     yml |-> "Yaml", onnx |-> "Onnx", pkl |-> "Pkl", h5 |-> "H5",
     tflite |-> "TfLite", savedmodel |-> "SavedModel", pt |-> "Pt",
     ckpt |-> "Ckpt"]

\* strings that are no extension of the table: other cases of one, the
\* serialized names of two variants, a MIME type
OtherStrings == {"PNG", "Yml", "tf_lite", "saved_model", "application/zip"}

Mimes == {"application/zip", "png", "yml"}

\* JSON values: a string, an object of one field, a number
JsonString(s) == [string |-> s]
JsonObject(k, v) == [key |-> k, value |-> v]
JsonNumber(n) == [number |-> n]

\* the JSON values given as fileType: strings, objects with the custom
\* field, an object without it, a number
JsonValues ==
    {JsonString(s) : s \in DOMAIN ExtensionTable \cup OtherStrings}
      \cup {JsonObject("custom", m) : m \in Mimes}
      \cup {JsonObject("mime", "application/zip"), JsonNumber(1)}

IsJsonString(v) == "string" \in DOMAIN v

IsJsonObject(v) == "key" \in DOMAIN v

\* str::to_lowercase
ToLowercase(s) ==
    CASE s = "PNG" -> "png"
      [] s = "Yml" -> "yml"
      [] OTHER -> s

\* FileType::from_str: the variant of the lowercased string, or Custom of
\* the string as given
FromStr(s) ==
    IF ToLowercase(s) \in DOMAIN ExtensionTable
    THEN [variant |-> ExtensionTable[ToLowercase(s)]]
    ELSE [variant |-> "Custom", mime |-> s]

\* the serde name of a unit variant under rename_all = "snake_case": an
\* underscore before every capital but the first, all in lower case
SnakeCase(variant) ==
    CASE variant = "TfLite" -> "tf_lite"
      [] variant = "SavedModel" -> "saved_model"
      [] OTHER -> CHOOSE e \in DOMAIN ExtensionTable \ {"yml"} :
                     ExtensionTable[e] = variant

\* Deserialize for FileType: visit_str for a string, visit_map for an
\* object, which must have the custom field; an error for any other value
Deserialize ==
    /\ fpc = "given"
    /\ IF IsJsonString(json_value)
       THEN file_type' = FromStr(json_value.string) /\ fpc' = "parsed"
       ELSE IF IsJsonObject(json_value) /\ json_value.key = "custom"
       THEN /\ file_type' = [variant |-> "Custom", mime |-> json_value.value]
            /\ fpc' = "parsed"
       ELSE UNCHANGED file_type /\ fpc' = "rejected"
    /\ UNCHANGED <<pipeline_vars, row_vars, error_vars, decoder_vars, json_value, serialized>>

\* the derived Serialize: a unit variant as its name in snake case, Custom
\* as the object of the custom field
Serialize ==
    /\ fpc = "parsed"
    /\ serialized' = IF file_type.variant = "Custom"
                     THEN JsonObject("custom", file_type.mime)
                     ELSE JsonString(SnakeCase(file_type.variant))
    /\ fpc' = "serialized"
    /\ UNCHANGED <<pipeline_vars, row_vars, error_vars, decoder_vars, json_value, file_type>>

FileTypeNext == Deserialize \/ Serialize

\* a JSON value given as the fileType of a file
FileTypeGiven ==
    /\ json_value \in JsonValues
    /\ file_type = NoValue
    /\ serialized = NoValue
    /\ fpc = "given"

\* the conversions of one fileType value
FileTypeInit ==
    /\ row_type = "files"
    /\ batch_size = 2
    /\ flush_interval = MaxInterval
    /\ skip_upload = FALSE
    /\ headers = [r \in Reqs |-> NoRequest]
    /\ PipelineInit
    /\ DecoderIdle
    /\ FileTypeGiven
    /\ NoAppError
    /\ NoRowBuilt

FileTypeSpec == FileTypeInit /\ [][FileTypeNext]_vars

\* ------------------------------------------------------------------------
\* AppError: ErrorCode, into_response
\* ------------------------------------------------------------------------
\* the discriminants of enum ErrorCode, by the names the codes serialize to
ErrorNumber ==
    [AUTHENTICATION_FAILED |-> 1001, INVALID_TOKEN |-> 1002,
     MISSING_TOKEN |-> 1003, MISSING_TENANT_ID |-> 1004, TOKEN_EXPIRED |-> 1005,
     INVALID_TOKEN_FORMAT |-> 1006, INVALID_BEARER_FORMAT |-> 1007,
     INSUFFICIENT_PERMISSIONS |-> 1008,
     INVALID_INPUT |-> 2001, MISSING_REQUIRED_FIELD |-> 2002,
     INVALID_JSON_FORMAT |-> 2003, INVALID_HEADER_FORMAT |-> 2004,
     INVALID_METRIC_FORMAT |-> 2005, INVALID_LOG_FORMAT |-> 2006,
     INVALID_TIMESTAMP |-> 2007, INVALID_STEP_VALUE |-> 2008,
     PROCESSING_FAILED |-> 3001, STREAM_PROCESSING_ERROR |-> 3002,
     BATCH_PROCESSING_ERROR |-> 3003, STREAM_DECODING_ERROR |-> 3004,
     DATA_TRANSFORMATION_ERROR |-> 3005, BUFFER_OVERFLOW_ERROR |-> 3006,
     DATABASE_ERROR |-> 4001, INSERT_FAILED |-> 4002, CONNECTION_FAILED |-> 4003,
     QUERY_FAILED |-> 4004, DATABASE_TIMEOUT |-> 4005,
     BATCH_INSERT_FAILED |-> 4006, DATABASE_UNAVAILABLE |-> 4007,
     INTERNAL_ERROR |-> 5001, SERVICE_UNAVAILABLE |-> 5002,
     CONFIGURATION_ERROR |-> 5003, RESOURCE_EXHAUSTED |-> 5004,
     RATE_LIMIT_EXCEEDED |-> 5005, SERVICE_OVERLOADED |-> 5006]

ErrorCodes == DOMAIN ErrorNumber

\* ErrorCode::error_type
ErrorType(code) ==
    LET n == ErrorNumber[code]
    IN CASE n \in 1001..1999 -> "Authentication Error"
         [] n \in 2001..2999 -> "Validation Error"
         [] n \in 3001..3999 -> "Processing Error"
         [] n \in 4001..4999 -> "Database Error"
         [] n \in 5001..5999 -> "System Error"
         [] OTHER -> "Unknown Error"

\* the details of an AppError: None from AppError::new, Some(value) from
\* with_details
Details == {"None", "Some"}

AppErrors == [code : ErrorCodes, details : Details]

\* a response that answers every error as an internal one
ErrorResponseAsInternal(err) ==
    [status |-> 500, body |-> [code |-> err.code, details |-> err.details]]

\* the pair (status, Json(body)) of into_response
ErrorResponse(err) ==
    [status |-> StatusCode(err.code),
     body |-> [code |-> err.code, details |-> err.details]]

\* a handler returns Err(app_error)
ReturnError ==
    /\ app_error = NoValue
    /\ app_error' \in AppErrors
    /\ UNCHANGED <<pipeline_vars, row_vars, decoder_vars, codec_vars, http_response>>

\* IntoResponse for AppError
AppErrorIntoResponse ==
    /\ app_error # NoValue
    /\ http_response = NoValue
    /\ http_response' = ErrorResponse(app_error)
    /\ UNCHANGED <<pipeline_vars, row_vars, decoder_vars, codec_vars, app_error>>

ErrorNext == ReturnError \/ AppErrorIntoResponse

\* one handler about to return an error
ErrorInit ==
    /\ row_type = "logs"
    /\ batch_size = 2
    /\ flush_interval = MaxInterval
    /\ skip_upload = FALSE
    /\ headers = [r \in Reqs |-> NoRequest]
    /\ Init

ErrorSpec == ErrorInit /\ [][ErrorNext]_vars

\* ------------------------------------------------------------------------
\* log_group_from_log_name and the rows that carry a log group
\* ------------------------------------------------------------------------
\* the characters of a logName: the slash and two others
NameChars == {"a", "b", "/"}

Names == UNION {[1..n -> NameChars] : n \in 0..MaxNameLen}

\* a log group cut at the first slash
LogGroupAtFirstSlash(input) ==
    LET first_slash == Position(input, {"/"})
    IN IF first_slash # -1 THEN SubSeq(input, 1, first_slash) ELSE <<>>

\* log_group_from_log_name: s[..last_slash] for Some(last_slash) of
\* s.rfind('/'), "" for None
LogGroupFromLogName(input) ==
    LET last_slash == RPosition(input, {"/"})
    IN IF last_slash # -1 THEN SubSeq(input, 1, last_slash) ELSE <<>>

\* the closure of MetricInput::into_rows and From<(MetricInput,
\* MetricEnrichment)> for MetricRow
BuildMetricRow ==
    /\ row_input # NoValue
    /\ row_built = NoValue
    /\ row_built' = [row |-> "MetricRow", log_name |-> row_input.log_name,
                     log_group |-> LogGroupFromLogName(row_input.log_name)]
    /\ UNCHANGED <<pipeline_vars, decoder_vars, codec_vars, error_vars, row_input>>

\* DatabaseRow::from for DataRow
BuildDataRow ==
    /\ row_input # NoValue
    /\ row_built = NoValue
    /\ row_built' = [row |-> "DataRow", log_name |-> row_input.log_name,
                     log_group |-> LogGroupFromLogName(row_input.log_name)]
    /\ UNCHANGED <<pipeline_vars, decoder_vars, codec_vars, error_vars, row_input>>

\* DatabaseRow::from for FilesRow
BuildFilesRow ==
    /\ row_input # NoValue
    /\ row_built = NoValue
    /\ row_built' = [row |-> "FilesRow", log_name |-> row_input.log_name,
                     log_group |-> LogGroupFromLogName(row_input.log_name)]
    /\ UNCHANGED <<pipeline_vars, decoder_vars, codec_vars, error_vars, row_input>>

BuildRowNext == BuildMetricRow \/ BuildDataRow \/ BuildFilesRow

\* an input with some logName
NameGiven ==
    /\ row_input \in [log_name : Names]
    /\ row_built = NoValue

\* the construction of one row from one logName
BuildRowInit ==
    /\ row_type = "data"
    /\ batch_size = 2
    /\ flush_interval = MaxInterval
    /\ skip_upload = FALSE
    /\ headers = [r \in Reqs |-> NoRequest]
    /\ PipelineInit
    /\ DecoderIdle
    /\ CodecIdle
    /\ NoAppError
    /\ NameGiven

BuildRowSpec == BuildRowInit /\ [][BuildRowNext]_vars

TypeOK ==
    /\ pc \in {"loop", "select", "flush", "backoff", "final", "final_backoff",
               "exited", "panicked", "cancelled"}
    /\ Len(channel) <= ChannelCapacity
    /\ elapsed \in 0..MaxInterval
    /\ timer_pc \in {"sleeping", "sending", "stopped"}

\* ------------------------------------------------------------------------
\* Properties
\* ------------------------------------------------------------------------
Range(s) == {s[i] : i \in DOMAIN s}

\* the codes of a line that fails to parse or to validate
LineFailureCodes ==
    {"STREAM_DECODING_ERROR", "INVALID_METRIC_FORMAT", "INVALID_LOG_FORMAT"}

\* the data model's conditions on a row's fields: metric name and value,
\* logType, dataType and logName
WellFormedRow(row) ==
    CASE row_type = "metrics" ->
           row.fields.log_name \notin {"", " "}
             /\ row.fields.value \notin {"NaN", "inf", "-inf"}
      [] row_type = "logs" -> row.fields.log_type \notin {"", " "}
      [] row_type = "data" ->
           row.fields.data_type \notin {"", " "} /\ row.fields.log_name \notin {"", " "}
      [] OTHER -> TRUE

\* C1: in every reachable state the buffer holds at most 2 x batchSize rows
\* (stated for the positive batch sizes).
C1_MemoryBound == batch_size > 0 => Len(buffer) <= 2 * batch_size

\* C2, as claimed: once the channel was closed while the buffer held rows
\* (uploads enabled, positive batch size), a batcher that has exited has
\* performed exactly one final flush.
C2_OneFinalFlushAfterClose ==
    (~skip_upload /\ batch_size > 0 /\ closed_with_rows /\ pc = "exited")
        => final_flushes = 1

\* C2, amended: with uploads enabled, at the step where the batcher's
\* receive observes the closed and drained channel, a non-empty buffer is
\* handed whole to final_flush, called for the first and only time, and the
\* buffer is left empty; an empty buffer leads to exit without final flush;
\* final_flush ends only in exit or abort.
C2_FinalFlushOnObservedClose ==
    [][ /\ (~skip_upload /\ pc = "select" /\ pc' \in {"final", "exited"}) =>
              IF buffer # <<>>
              THEN /\ pc' = "final"
                   /\ records_to_flush' = buffer
                   /\ buffer' = <<>>
                   /\ final_flushes = 0
                   /\ final_flushes' = 1
              ELSE pc' = "exited" /\ final_flushes' = 0
        /\ (pc' = "final" /\ pc \notin {"final", "final_backoff"}) => pc = "select"
        /\ pc \in {"final", "final_backoff"} =>
              /\ pc' \in {"final", "final_backoff", "exited", "panicked"}
              /\ records_to_flush' \in {records_to_flush, <<>>}
              /\ final_flushes' = 1
      ]_vars

C2_Witness ==
    /\ closed_with_rows
    /\ pc = "final"
    /\ Len(records_to_flush) = 2
    /\ buffer = <<>>
    /\ consecutive_errors > 0

C4_FinalFlushRetry ==
    /\ pc \in {"final", "final_backoff"} => retry_count < 5 /\ final_flushes = 1
    /\ pc = "final" => slept = Pow2(retry_count + 1) - 2
    /\ pc = "final_backoff" => retry_count >= 1 /\ slept = Pow2(retry_count) - 2
    /\ (pc = "exited" /\ final_flushes > 0) => last_insert = "ok"
    /\ pc = "panicked" => retry_count = 5 /\ last_insert = "err" /\ final_flushes = 1

C4_Witness == pc = "panicked" /\ Len(records_to_flush) = 2

\* C5, as claimed: at the fatal abort the backoff sleeps of the final flush
\* sum to at least 2 + 4 + 8 + 16 + 32 = 62 seconds.
C5_BackoffSumAtLeast62 == pc = "panicked" => slept >= 62

\* C5, amended: at the fatal abort the final flush has made 5 attempts and
\* its backoff sleeps, one after each of the first 4 failures, sum to
\* exactly 2 + 4 + 8 + 16 = 30 seconds.
C5_BackoffSumIs30 == pc = "panicked" => (retry_count = 5 /\ slept = 30)

C5_Witness ==
    /\ pc = "panicked"
    /\ Len(records_to_flush) = 1
    /\ slept = 30
    /\ ~senders_open

\* C6: once a batcher has aborted, no other task of the process takes a
\* further step.
C6_AbortStopsProcess ==
    [][pc = "panicked" => UNCHANGED <<timer_pc, tick_pending, hpc, channel>>]_vars

\* every row the handlers have handed over, wherever it is now
HandedOver ==
    Range(channel) \cup Range(buffer) \cup Range(records_to_flush)
        \cup UNION {Range(sent[r]) : r \in Reqs}

\* C7: every row handed over is well formed, and a request that failed on
\* a line that did not parse or validate has sent no row of that line.
C7_NoRowOfInvalidLine ==
    /\ \A row \in HandedOver : WellFormedRow(row)
    /\ \A r \in Reqs :
         response[r].code \in LineFailureCodes =>
             \A i \in DOMAIN sent[r] : sent[r][i].line # line_counter[r]

C7_Witness ==
    /\ row_type = "metrics"
    /\ response[1].code = "INVALID_METRIC_FORMAT"
    /\ Cardinality(DOMAIN raw_data[1].data) = 2
    /\ line_counter[1] = 2
    /\ Len(sent[1]) = 2

\* the safety part of C8: the step at which a request fails on line k
\* sends nothing and leaves channel and buffer as they are, all rows the
\* request has sent are of lines before k, a failed request is finished, a
\* finished request reads and sends nothing more, a row leaves the channel
\* only into the batcher's buffer and the buffer only into a batch
C8_FailureSafety ==
    [][ /\ \A r \in Reqs :
             /\ (hpc[r] # "done" /\ hpc'[r] = "done"
                    /\ response'[r].code \in LineFailureCodes) =>
                   /\ channel' = channel
                   /\ buffer' = buffer
                   /\ sent'[r] = sent[r]
                   /\ \A i \in DOMAIN sent[r] : sent[r][i].line < line_counter'[r]
             /\ hpc[r] = "done" =>
                   /\ hpc'[r] = "done"
                   /\ response'[r] = response[r]
                   /\ sent'[r] = sent[r]
                   /\ line_counter'[r] = line_counter[r]
             /\ response'[r].code \in LineFailureCodes => hpc'[r] = "done"
        /\ channel' # channel =>
             \/ /\ channel # <<>>
                /\ channel' = Tail(channel)
                /\ buffer' = Append(buffer, Head(channel))
             \/ /\ Len(channel') = Len(channel) + 1
                /\ SubSeq(channel', 1, Len(channel)) = channel
        /\ buffer' # buffer =>
             \/ /\ channel # <<>>
                /\ buffer' = Append(buffer, Head(channel))
             \/ /\ buffer' = <<>>
                /\ records_to_flush' = buffer
      ]_vars

\* C8: when line k of a request fails to parse or validate the request
\* fails, the rows of the lines before k stay on the channel until the
\* batcher receives them and are batched (channel and buffer are empty
\* again and again), and no later line is read or sent.
C8_FailureKeepsEarlierRows ==
    C8_FailureSafety /\ []<>(channel = <<>> /\ buffer = <<>>)

C8_Witness ==
    /\ hpc[1] = "done"
    /\ response[1].code = "STREAM_DECODING_ERROR"
    /\ line_counter[1] = 3
    /\ Len(sent[1]) >= 2
    /\ sent[1][1] \in Range(buffer)
    /\ sent[1][2] \in Range(channel)

\* C9: when a handler has sent the last row of a valid line, the rows it
\* has sent for that line are one per entry of the data map of a metrics
\* input, and exactly one for a log or data input; a presign request has
\* sent one row per file, in order.
C9_FanOut ==
    [][ \A r \in Reqs :
          (hpc[r] = "sending" /\ hpc'[r] # "sending"
              /\ response'[r].code \in {"NONE", "OK"}) =>
             LET mine == {i \in DOMAIN sent'[r] : sent'[r][i].line = line_counter[r]}
             IN  CASE row_type = "metrics" ->
                        /\ Cardinality(mine) = Cardinality(DOMAIN raw_data[r].data)
                        /\ {sent'[r][i].fields.log_name : i \in mine}
                              = DOMAIN raw_data[r].data
                   [] row_type = "files" ->
                        /\ Len(sent'[r]) = Len(raw_data[r].files)
                        /\ \A i \in DOMAIN sent'[r] :
                              /\ sent'[r][i].line = i
                              /\ sent'[r][i].fields = raw_data[r].files[i]
                   [] OTHER -> Cardinality(mine) = 1
      ]_vars

C9_Witness ==
    /\ row_type = "metrics"
    /\ hpc[1] = "stream"
    /\ Len(sent[1]) = 2
    /\ sent[1][1].line = sent[1][2].line
    /\ sent[1][1] # sent[1][2]

\* C10: the count in the summary of a successful ingest request is the
\* number of rows the request has sent on the channel.
C10_SummaryCountsRows ==
    \A r \in Reqs :
        (row_type # "files" /\ response[r].code = "OK") =>
            response[r].n = Len(sent[r])

C10_Witness ==
    /\ row_type = "metrics"
    /\ response[1].code = "OK"
    /\ in_remaining[1]
    /\ line_counter[1] = 3
    /\ response[1].n = 3
    /\ \A i \in DOMAIN sent[1] : sent[1][i].line # 1

\* the rows of request r among the rows of s, in the order of s
RowsOf(s, r) == SelectSeq(s, LAMBDA row : row.req = r)

IsPrefix(s, t) == Len(s) <= Len(t) /\ SubSeq(t, 1, Len(s)) = s

\* C11: the processor receives the rows of each request in that request's
\* line order, whatever rows of other requests come in between: the rows of
\* a request among the rows received are the first rows the request sent,
\* in the order sent, and that order is the order of the lines.
C11_ReceiptInLineOrder ==
    \A r \in Reqs :
        /\ IsPrefix(RowsOf(received, r), sent[r])
        /\ \A i, j \in DOMAIN sent[r] : i < j => sent[r][i].line <= sent[r][j].line
        /\ \A i, j \in DOMAIN received :
              (i < j /\ received[i].req = r /\ received[j].req = r)
                  => received[i].line <= received[j].line

C11_Witness ==
    /\ Len(received) = 4
    /\ received[1].req = 2 /\ received[1].line = 1
    /\ received[2].req = 1 /\ received[2].line = 2
    /\ received[3].req = 1 /\ received[3].line = 3
    /\ received[4].req = 2 /\ received[4].line = 2

\* the flush in progress has not yet made its first submission
BeforeFirstSubmission == pc \in {"flush", "final"} /\ retry_count = 0

\* C12: the batches reach the writer one after another, in flush order and
\* with their rows in receipt order: the rows of the distinct batches
\* submitted, in order of submission, are the first rows received; the batch
\* of the flush in progress holds the rows received next, or, once
\* submitted, is the latest batch, so a retry never follows a later batch.
C12_BatchesInReceiptOrder ==
    /\ IsPrefix(submitted, received)
    /\ pc \in {"flush", "backoff", "final", "final_backoff"} =>
          IF BeforeFirstSubmission
          THEN IsPrefix(submitted \o records_to_flush, received)
          ELSE /\ Len(records_to_flush) <= Len(submitted)
               /\ records_to_flush =
                     SubSeq(submitted, Len(submitted) - Len(records_to_flush) + 1,
                            Len(submitted))
    /\ ~skip_upload => received = submitted \o records_to_flush \o buffer
                          \/ (~BeforeFirstSubmission /\ received = submitted \o buffer)

C12_Witness ==
    /\ pc = "backoff"
    /\ retry_count = 2
    /\ Len(records_to_flush) = 2
    /\ Len(submitted) = 3
    /\ received = submitted

\* a send of request r is suspended: the handler is at the send and cannot
\* take it
Suspended(r) == hpc[r] = "sending" /\ ~ENABLED SendRow(r)

\* the channel is within its capacity; a handler at a send holds the row to
\* send and is suspended exactly when the channel is full and the processor
\* alive; a handler reading its body can always go on
C13_NeverOverCapacity ==
    /\ Len(channel) <= ChannelCapacity
    /\ \A r \in Reqs :
          /\ hpc[r] = "sending" => rows[r] # <<>>
          /\ Suspended(r) <=> (hpc[r] = "sending" /\ ~BatcherEnded
                                  /\ Len(channel) = ChannelCapacity)
          /\ hpc[r] = "stream" => ENABLED (NextLine(r) \/ EndOfStream(r))

\* a suspended send keeps its rows, its place and no response, and stays
\* suspended until a step in which the processor receives a row
C13_SuspendedUntilReceive ==
    \A r \in Reqs :
        Suspended(r) =>
            /\ rows'[r] = rows[r] /\ sent'[r] = sent[r] /\ hpc'[r] = "sending"
            /\ response'[r] = response[r]
            /\ Suspended(r)' \/ (pc = "select" /\ channel' = Tail(channel)
                                    /\ received' = Append(received, Head(channel)))

\* C13: the channel never holds more rows than its capacity; a send on a
\* full channel is suspended, neither dropped nor failed: the handler keeps
\* the row and its place, and goes on only after the processor has received
\* a row; a handler that is not at a send is never made to wait.
C13_BoundedChannelBackpressure ==
    []C13_NeverOverCapacity /\ [][C13_SuspendedUntilReceive]_vars

C13_Witness ==
    /\ Len(channel) = ChannelCapacity
    /\ Suspended(1) /\ Suspended(2)
    /\ Len(received) = 2
    /\ pc = "flush"

\* the number of rows into_rows makes of the valid input x
RowCount(t, x) == Len(CHOOSE rs \in IntoRows(t, x, 1, 1) : TRUE)

\* the result of reading the body events ev after count rows: what the
\* lines read and the end of the body determine by themselves
RECURSIVE ResultOfBody(_, _, _)
ResultOfBody(t, ev, count) ==
    IF ev = <<>> THEN [code |-> "NONE", n |-> 0]
    ELSE LET e == Head(ev)
         IN  IF e.kind = "chunk_error"
             THEN [code |-> "STREAM_PROCESSING_ERROR", n |-> 0]
             ELSE IF e.ln.kind = "blank"
             THEN IF e.kind = "end" THEN Summary(count)
                  ELSE ResultOfBody(t, Tail(ev), count)
             ELSE IF e.ln.kind = "garbage"
             THEN [code |-> "STREAM_DECODING_ERROR", n |-> 0]
             ELSE IF Validate(t, e.ln.input) # "OK"
             THEN [code |-> Validate(t, e.ln.input), n |-> 0]
             ELSE IF e.kind = "end"
             THEN Summary(AddCount(count, RowCount(t, e.ln.input)))
             ELSE ResultOfBody(t, Tail(ev), AddCount(count, RowCount(t, e.ln.input)))

\* the result the request's own input determines: its headers h and the
\* events ev it has read
ResultOfInput(t, h, ev) ==
    LET a == Auth(h, ev[1].db_ok)
        e == FromHeaders(t, a.tenant_id, h)
    IN  IF ~a.ok THEN [code |-> a.code, n |-> 0]
        ELSE IF ~e.ok THEN [code |-> e.code, n |-> 0]
        ELSE IF t = "files"
        THEN IF ev[Len(ev)].kind = "presign"
             THEN [code |-> ev[Len(ev)].code, n |-> 0]
             ELSE [code |-> "NONE", n |-> 0]
        ELSE ResultOfBody(t, Tail(ev), 0)

\* C14: the response of a request (status, code, count) is the one its own
\* input determines, its headers, the key lookup, its body and the
\* presigner; it is the same whatever the writer answered to any batch, and
\* no request is answered before its handler returns.
C14_ResponseIndependentOfWriter ==
    \A r \in Reqs :
        IF hpc[r] = "done"
        THEN LET res == ResultOfInput(row_type, headers[r], consumed[r])
             IN  res.code # "NONE" /\ response[r] = IntoResponse(row_type, res)
        ELSE response[r] = NoResponse

C14_Witness ==
    /\ response[1].status = 200
    /\ response[1].n = 3
    /\ last_insert = "err"
    /\ consecutive_errors = 1
    /\ pc = "select"
    /\ Len(submitted) = 2
    /\ RowsOf(submitted, 1) = submitted

\* the enrichment triple of request r: the tenant of its token and the run
\* id and project name of its headers
TripleOf(r) ==
    LET token == BearerToken(headers[r].authorization)
        key == CHOOSE k \in ApiKeys : k.key = HashApiKey(token)
        run == ParseU64(headers[r].run_id)
    IN  [tenant_id |-> key.organization_id,
         run_id |-> IF run.ok THEN run.value ELSE 0,
         project_name |-> headers[r].project_name]

CarriesOwnTriple(row) ==
    /\ row.tenant_id = TripleOf(row.req).tenant_id
    /\ row.run_id = TripleOf(row.req).run_id
    /\ row.project_name = TripleOf(row.req).project_name

\* C15: every row in the channel, in the buffer or in a batch carries the
\* enrichment triple of the request that made it: the tenant of that
\* request's token, the run id and project name of that request's headers;
\* with requests of different tenants under way at once no row carries the
\* triple of the other request.
C15_RowsCarryOwnEnrichment ==
    /\ \A r \in Reqs : enrichment[r] # NoEnrichment => enrichment[r] = TripleOf(r)
    /\ \A row \in Range(channel) \cup Range(buffer) \cup Range(records_to_flush)
                  \cup UNION {Range(rows[r]) : r \in Reqs} :
          /\ CarriesOwnTriple(row)
          /\ \A o \in Reqs \ {row.req} :
                TripleOf(o) # TripleOf(row.req) =>
                    [tenant_id |-> row.tenant_id, run_id |-> row.run_id,
                     project_name |-> row.project_name] # TripleOf(o)

C15_Witness ==
    /\ TripleOf(1).tenant_id # TripleOf(2).tenant_id
    /\ Len(channel) = 2 /\ channel[1].req = 1 /\ channel[2].req = 2
    /\ pc = "flush"
    /\ Len(records_to_flush) = 2
    /\ records_to_flush[1].req = 2 /\ records_to_flush[2].req = 1
    /\ hpc[1] = "sending" /\ hpc[2] = "sending"

\* the ingest endpoints
IngestTypes == {"metrics", "logs", "data"}

\* the results of auth for a missing, malformed, unknown or expired token
AuthFailureCodes ==
    {"MISSING_TOKEN", "INVALID_TOKEN_FORMAT", "INVALID_BEARER_FORMAT", "INVALID_TOKEN"}

\* the results of validate for an input it rejects
ValidationFailureCodes == {"INVALID_METRIC_FORMAT", "INVALID_LOG_FORMAT"}

\* C16: on the ingest endpoints a request whose authentication fails
\* (missing, malformed, unknown or expired token) is answered with status
\* 401 or 403.
C16_AuthFailureIs401Or403 ==
    \A r \in Reqs :
        (row_type \in IngestTypes /\ hpc[r] = "done"
           /\ response[r].code \in AuthFailureCodes)
            => response[r].status \in {401, 403}

\* C17: on the ingest endpoints a request with a missing required header,
\* or with a line that fails validation, is answered with status 400; for a
\* metrics line with a non-finite value the code of the response is
\* INVALID_METRIC_FORMAT.
C17_InvalidRequestIs400 ==
    \A r \in Reqs :
        (row_type \in IngestTypes /\ hpc[r] = "done") =>
            /\ response[r].code \in {"INVALID_HEADER_FORMAT"} \cup ValidationFailureCodes
                  => response[r].status = 400
            /\ (row_type = "metrics" /\ response[r].code = "INVALID_METRIC_FORMAT"
                   /\ \E k \in DOMAIN raw_data[r].data : ~IsFinite(raw_data[r].data[k]))
                  => response[r].error = "INVALID_METRIC_FORMAT"

\* C18: on the ingest endpoints a line that is not valid JSON for the input
\* type makes the request fail with status 422 and code
\* STREAM_DECODING_ERROR in the response.
C18_GarbageLineIs422DecodingError ==
    \A r \in Reqs :
        (row_type \in IngestTypes /\ hpc[r] = "done"
           /\ response[r].code = "STREAM_DECODING_ERROR")
            => (response[r].status = 422 /\ response[r].error = "STREAM_DECODING_ERROR")

\* C19: in the ingestion handler and in the presign handler alike a failed
\* send of a row on the channel aborts the request with status 422.
C19_FailedSendIs422 ==
    \A r \in Reqs :
        (hpc[r] = "done" /\ rows[r] # <<>> /\ response[r].code = SendErrorCode(row_type))
            => response[r].status = 422

\* C20: whenever the buffer holds at least batch_size rows the processor's
\* next step is a flush of the whole buffer: with such a buffer it receives
\* no row and handles no tick.
C20_FullBufferFlushedFirst ==
    [][ (batch_size > 0 /\ BufferFull(Len(buffer))) =>
          /\ received' = received
          /\ ~(pc = "select" /\ tick_pending /\ ~tick_pending')
          /\ (pc = "loop" /\ pc' # pc) =>
                (pc' = "flush" /\ records_to_flush' = buffer /\ buffer' = <<>>) ]_vars

\* the step handles an inactivity tick
TickHandled == pc = "select" /\ tick_pending /\ ~tick_pending'

\* C21: on an inactivity tick the processor flushes if and only if the
\* time since last_flush is at least flush_interval and the buffer is not
\* empty; a tick that does not meet the condition leaves the buffer,
\* last_flush and the error counter as they are and calls no writer.
C21_TickFlushesIffDue ==
    [][ TickHandled =>
          IF elapsed >= flush_interval /\ buffer # <<>>
          THEN pc' = "flush" /\ records_to_flush' = buffer /\ buffer' = <<>>
          ELSE /\ pc' = "loop"
               /\ UNCHANGED <<buffer, elapsed, consecutive_errors, submitted,
                              last_insert>> ]_vars

\* C22: with a flush interval shorter than the timer's period (100 ms
\* against 1 s) and a batch size the buffer does not reach, rows that wait
\* in the buffer are flushed within about the flush interval of the last
\* enqueue: the processor, waiting in select! with such rows and an idle
\* input, does not have to wait a whole period of the timer for the flush.
C22_FlushedWithinInterval ==
    [][ (~skip_upload /\ flush_interval < TimerPeriod /\ buffer # <<>>
           /\ Len(buffer) < batch_size /\ pc = "select" /\ channel = <<>>
           /\ ~tick_pending)
          => ~(timer_pc = "sleeping" /\ timer_pc' = "sending") ]_vars

UnparsableRunId(r) ==
    /\ headers[r] # NoRequest
    /\ hpc[r] # "idle"
    /\ response[r].code \notin AuthFailureCodes \cup {"DATABASE_ERROR"}
    /\ headers[r].run_id \notin {NoHeader, NotText}
    /\ ~ParseU64(headers[r].run_id).ok

\* C24: for every request that derives its enrichment from the headers an
\* X-Run-Id that does not parse as a u64 gives run id 0 and the request
\* goes on, while a missing X-Project-Name fails the request.
C24_UnparsableRunIdIsZero ==
    \A r \in Reqs :
        UnparsableRunId(r) =>
            IF headers[r].project_name = NoHeader
            THEN response[r].code = "INVALID_HEADER_FORMAT"
            ELSE enrichment[r] # NoEnrichment /\ enrichment[r].run_id = 0

Whitespace == {" ", "\t", "\r", "\n"}

\* C25: every byte slice the decoder hands to the JSON parser is non-empty,
\* and neither its first nor its last byte is a space, a tab, a CR or an LF.
C25_ParsedSlicesAreTrimmed ==
    \A i \in DOMAIN parsed :
        LET sl == parsed[i].slice
        IN /\ sl # <<>>
           /\ sl[1] \notin Whitespace
           /\ sl[Len(sl)] \notin Whitespace

\* the body the chunks make up
RECURSIVE Concat(_)
Concat(cs) == IF cs = <<>> THEN <<>> ELSE Head(cs) \o Concat(Tail(cs))

\* the newline-terminated segments of a body, in order, followed by its
\* trailing unterminated segment
RECURSIVE Segments(_)
Segments(b) ==
    IF \E i \in DOMAIN b : b[i] = "\n"
    THEN LET n == CHOOSE i \in DOMAIN b :
                      b[i] = "\n" /\ \A j \in 1..(i - 1) : b[j] # "\n"
         IN <<SubSeq(b, 1, n)>> \o Segments(SubSeq(b, n + 1, Len(b)))
    ELSE <<b>>

EmptyAfterTrimming(seg) == \A i \in DOMAIN seg : seg[i] \in Whitespace

NotEmptyAfterTrimming(seg) == ~EmptyAfterTrimming(seg)

\* the lines of a body: its segments that are not empty after trimming
LinesOfBody(b) == SelectSeq(Segments(b), NotEmptyAfterTrimming)

SegmentsParsed == [i \in DOMAIN parsed |-> parsed[i].segment]

\* C26: the lines the decoder yields depend only on the concatenated body,
\* not on its chunks: at every moment they are the first lines of the body
\* (its LF-terminated segments in order, then the trailing unterminated
\* segment, less the segments empty after trimming), each yielded segment
\* gives the slice its trimming gives, the trailing segment is yielded only
\* once the source has ended, and a body decoded to its end has yielded
\* all its lines.
C26_LinesIndependentOfChunks ==
    LET body == Concat(chunks)
        expected == LinesOfBody(body)
        terminated == LinesOfBody(body) # <<>>
                        /\ expected[Len(expected)][Len(expected[Len(expected)])] = "\n"
    IN /\ IsPrefix(SegmentsParsed, expected)
       /\ \A i \in DOMAIN parsed : parsed[i].slice = TrimmedSlice(parsed[i].segment)
       /\ (dpc \in {"read", "lines"} /\ expected # <<>> /\ ~terminated)
             => Len(parsed) < Len(expected)
       /\ dpc = "done" => SegmentsParsed = expected

\* a body of two lines, the first cut by a chunk boundary and the second
\* without its newline, decoded to its end
C26_Witness ==
    /\ dpc = "done"
    /\ Len(chunks) >= 2
    /\ Len(parsed) = 2
    /\ \A i \in DOMAIN chunks[1] : chunks[1][i] # "\n"
    /\ line_buffer = <<>>

\* request r reads its body and the read fails
ReadErrorStep(r) ==
    /\ Len(consumed'[r]) = Len(consumed[r]) + 1
    /\ consumed'[r][Len(consumed'[r])].kind = "chunk_error"

FailedOnReadError(r) ==
    hpc[r] = "done" /\ response[r].code = "STREAM_PROCESSING_ERROR"

\* the step of a read error returns the stream-processing error, answered
\* with the status of a failed request, and parses and sends nothing; the
\* request reads, parses and sends nothing afterwards
C27_ReadErrorSafety ==
    [][ \A r \in Reqs :
          /\ ReadErrorStep(r) =>
                /\ hpc'[r] = "done"
                /\ response'[r].code = "STREAM_PROCESSING_ERROR"
                /\ response'[r].status = 422
                /\ UNCHANGED <<channel, buffer, sent, line_counter, rows, raw_data,
                               received, submitted>>
          /\ FailedOnReadError(r) =>
                /\ FailedOnReadError(r)'
                /\ UNCHANGED <<sent[r], line_counter[r], consumed[r], rows[r]>>
      ]_vars

\* a request failed by a read error has parsed the complete lines it read
\* and no trailing unterminated segment, and its rows are of those lines
C27_PartialLineNeverParsed ==
    \A r \in Reqs :
        FailedOnReadError(r) =>
            /\ \A i \in DOMAIN consumed[r] : consumed[r][i].kind # "end"
            /\ ~in_remaining[r]
            /\ \A i \in DOMAIN sent[r] : sent[r][i].line <= line_counter[r]
            /\ line_counter[r]
                 = Cardinality({i \in DOMAIN consumed[r] : consumed[r][i].kind = "line"})

\* C27: a read error from the body stream fails the request with the
\* stream-processing error; the rows of the lines completed before the
\* error stay queued and are batched (each is submitted in a batch), and
\* the bytes of an unterminated partial line are never parsed or enqueued.
C27_ReadErrorKeepsEarlierRows ==
    /\ C27_ReadErrorSafety
    /\ []C27_PartialLineNeverParsed
    /\ \A r \in Reqs :
          FailedOnReadError(r) ~>
              (\A i \in DOMAIN sent[r] : sent[r][i] \in Range(submitted))

\* a request failed by a read error after two lines, whose first row is
\* in the processor's buffer and whose second is still on the channel
C27_Witness ==
    /\ FailedOnReadError(1)
    /\ Len(sent[1]) = 2
    /\ sent[1][1] \in Range(buffer)
    /\ sent[1][2] \in Range(channel)

\* request r asks for its presigned URLs
PresignStep(r) ==
    /\ Len(consumed'[r]) = Len(consumed[r]) + 1
    /\ consumed'[r][Len(consumed'[r])].kind = "presign"

UrlRequested(r) == \E i \in DOMAIN consumed[r] : consumed[r][i].kind = "presign"

\* C28: in a presign request the FilesRows of all files have been sent on
\* the files channel, in request order, when the presigned URLs are
\* requested; a request whose send fails ends with the internal error
\* without a URL having been requested; a failing presign fails the request
\* and leaves the channel and the processor's buffer as they are, and the
\* rows on the channel leave it only towards the processor.
C28_RowsSentBeforePresign ==
    [][ row_type = "files" =>
          /\ \A r \in Reqs :
                /\ PresignStep(r) =>
                      /\ rows[r] = <<>>
                      /\ Len(sent[r]) = Len(raw_data[r].files)
                      /\ \A i \in DOMAIN sent[r] :
                            /\ sent[r][i].fields = raw_data[r].files[i]
                            /\ sent[r][i].line = i
                      /\ UNCHANGED <<channel, buffer, sent>>
                      /\ hpc'[r] = "done"
                      /\ consumed'[r][Len(consumed'[r])].code = "INTERNAL_ERROR" =>
                            response'[r].status = 500
                /\ (hpc[r] = "sending" /\ hpc'[r] = "done") =>
                      /\ response'[r].code = "INTERNAL_ERROR"
                      /\ ~UrlRequested(r)'
                      /\ UNCHANGED <<channel, sent>>
                /\ hpc[r] = "done" => UNCHANGED <<hpc[r], consumed[r], sent[r]>>
          /\ channel' # channel =>
                \/ /\ channel # <<>>
                   /\ channel' = Tail(channel)
                   /\ buffer' = Append(buffer, Head(channel))
                \/ /\ Len(channel') = Len(channel) + 1
                   /\ SubSeq(channel', 1, Len(channel)) = channel
      ]_vars

\* a presign request of two files whose presign failed, both rows still
\* on the channel
C28_Witness ==
    /\ row_type = "files"
    /\ hpc[1] = "done"
    /\ UrlRequested(1)
    /\ response[1].code = "INTERNAL_ERROR"
    /\ Len(sent[1]) = 2
    /\ channel = sent[1]

\* a presign request whose second send failed
C28_SendFailed ==
    /\ row_type = "files"
    /\ hpc[1] = "done"
    /\ ~UrlRequested(1)
    /\ Len(sent[1]) = 1
    /\ Len(raw_data[1].files) = 2

RECURSIVE TotalEntries(_, _)
TotalEntries(m, names) ==
    IF names = {} THEN 0
    ELSE LET n == CHOOSE x \in names : TRUE
         IN Len(m[n]) + TotalEntries(m, names \ {n})

KnownExtensions == DOMAIN ExtensionTable

\* C30: parsing a FileType JSON value and serializing the result gives the
\* value again, for every known extension string of the enumeration and for
\* every object with the custom field.
C30_FileTypeRoundTrip ==
    (fpc = "serialized"
        /\ json_value \in {JsonString(e) : e \in KnownExtensions}
                            \cup {JsonObject("custom", m) : m \in Mimes})
      => serialized = json_value

\* the statuses of each kind of error
ClassStatuses(type) ==
    CASE type = "Authentication Error" -> {401, 403}
      [] type = "Validation Error" -> {400}
      [] type = "Processing Error" -> {422}
      [] type = "Database Error" -> {503, 504}
      [] type = "System Error" -> {500, 503, 429}
      [] OTHER -> {}

HasSlash(x) == \E i \in DOMAIN x : x[i] = "/"

\* C32: logGroup(x) is the part of x before its last '/', and the empty
\* string when x has no '/'; every MetricRow, DataRow and FilesRow built
\* has logGroup = logGroup(logName).
C32_LogGroupOfLogName ==
    row_built # NoValue =>
        LET x == row_built.log_name
            g == row_built.log_group
        IN /\ row_built.row \in {"MetricRow", "DataRow", "FilesRow"}
           /\ x = row_input.log_name
           /\ ~HasSlash(x) => g = <<>>
           /\ HasSlash(x) =>
                 /\ Len(g) < Len(x)
                 /\ g = SubSeq(x, 1, Len(g))
                 /\ x[Len(g) + 1] = "/"
                 /\ \A i \in (Len(g) + 2)..Len(x) : x[i] # "/"

\* the MetricRow of a logName with two slashes, a/b/: log group a/b
C32_Witness ==
    /\ row_built # NoValue
    /\ row_built.row = "MetricRow"
    /\ Len(row_built.log_name) = 4
    /\ row_built.log_name[2] = "/"
    /\ row_built.log_name[4] = "/"
    /\ row_built.log_group = <<"a", "/", "b">>

\* the batch in flight has been submitted to the writer at least once
InFlightSubmitted == records_to_flush # <<>> /\ retry_count > 0

\* the rows of the batches that are over: written, or dropped after the
\* last attempt
BatchesOver ==
    IF InFlightSubmitted
    THEN SubSeq(submitted, 1, Len(submitted) - Len(records_to_flush))
    ELSE submitted

NoRowTwice(s) == \A i, j \in DOMAIN s : s[i] = s[j] => i = j

\* C33: a flush drains the whole buffer at once: the batch is the buffer's
\* content in FIFO order and the buffer is empty right after; the rows
\* received are at all times, in the order of receipt, the rows of the
\* batches that are over (written or dropped), then the batch in flight,
\* then the buffer, so that each is in exactly one of them, and no row is in
\* two batches.
C33_FlushDrainsWholeBuffer ==
    /\ [](/\ received = BatchesOver \o records_to_flush \o buffer
          /\ NoRowTwice(received)
          /\ NoRowTwice(submitted)
          /\ InFlightSubmitted =>
                SubSeq(submitted, Len(submitted) - Len(records_to_flush) + 1,
                       Len(submitted)) = records_to_flush)
    /\ [][ (records_to_flush = <<>> /\ records_to_flush' # <<>>) =>
              (records_to_flush' = buffer /\ buffer' = <<>>) ]_vars

\* a first batch dropped after its last attempt, and a second batch of two
\* rows in flight before its first attempt
C33_Witness ==
    /\ consecutive_errors = 1
    /\ Len(submitted) = 1
    /\ Len(records_to_flush) = 2
    /\ ~InFlightSubmitted
    /\ pc = "flush"

C35_BufferWithinBatchSize ==
    /\ []((~skip_upload /\ batch_size >= 1) => Len(buffer) <= batch_size)
    /\ [][ (~skip_upload /\ batch_size >= 1 /\ Len(buffer') > Len(buffer)) =>
              (Len(buffer) < batch_size /\ Len(buffer') = Len(buffer) + 1) ]_vars

\* a row received into the buffer emptied by a pre-check flush that
\* dropped its batch of batch_size rows
C35_Witness ==
    /\ ~skip_upload
    /\ batch_size = 2
    /\ consecutive_errors = 1
    /\ Len(submitted) = 2
    /\ Len(buffer) = 1
    /\ Len(received) = 3

\* ------------------------------------------------------------------------
\* Two clients of one log pipeline while the writer may fail
\* ------------------------------------------------------------------------
\* the running pipeline: both handlers hold their sender, the batcher
\* flushes every row on its own and the writer returns Ok or Err
BackpressureNext ==
    \/ Precheck
    \/ RecvRecord
    \/ HandleTick
    \/ InsertOk
    \/ InsertErr
    \/ Backoff
    \/ TimePasses
    \/ TimerSend
    \/ \E r \in Reqs : Begin(r) \/ NextLine(r) \/ EndOfStream(r) \/ SendRow(r)

BackpressureInit ==
    /\ row_type = "logs"
    /\ batch_size = 1
    /\ flush_interval = MaxInterval
    /\ skip_upload = FALSE
    /\ headers = [r \in Reqs |-> IF r = 1 THEN GoodHeaders("Bearer k1", "7")
                                          ELSE GoodHeaders("Bearer k2", "abc")]
    /\ Init

BackpressureSpec == BackpressureInit /\ [][BackpressureNext]_vars

\* flush_records has been entered and has not returned: an attempt or a
\* backoff sleep is under way
FlushInProgress == pc \in {"flush", "backoff"}

\* the channel only grew at its back
GrewAtBack(before, after) ==
    /\ Len(after) >= Len(before)
    /\ SubSeq(after, 1, Len(before)) = before

\* C36: while a flush is in progress the batcher receives no row and handles
\* no tick: the buffer is empty until the flush returns, the rows sent
\* meanwhile wait in the channel, the one pending tick keeps the timer task
\* at its send, and a producer at a send with the channel full is suspended
\* and stays so until the flush returns
C36_FlushBlocksBatcher ==
    /\ [](FlushInProgress =>
             /\ buffer = <<>>
             /\ Len(channel) <= ChannelCapacity
             /\ \A r \in Reqs :
                   (hpc[r] = "sending" /\ Len(channel) = ChannelCapacity) => Suspended(r))
    /\ [][FlushInProgress =>
             /\ buffer' = <<>>
             /\ received' = received
             /\ GrewAtBack(channel, channel')
             /\ tick_pending => tick_pending'
             /\ (tick_pending /\ timer_pc = "sending") => timer_pc' = "sending"
             /\ \A r \in Reqs :
                   (Suspended(r) /\ FlushInProgress') => Suspended(r)']_vars

\* a second attempt of a flush is due after a backoff sleep, the channel is
\* full of rows sent since the flush began, both producers are suspended
\* and the timer task waits behind the pending tick
C36_Witness ==
    /\ pc = "flush"
    /\ retry_count = 1
    /\ slept > 0
    /\ Len(channel) = ChannelCapacity
    /\ \A r \in Reqs : Suspended(r)
    /\ tick_pending
    /\ timer_pc = "sending"

\* the most rows a log request sends: one for each line and one for the
\* unterminated remainder
MaxRowsOfRequest == MaxLines + 1

\* request r is at the send of its k-th row
StartsToSend(r, k) == hpc[r] = "sending" /\ Len(sent[r]) = k - 1

\* C37: with uploads enabled, under fair scheduling and writer calls that
\* return, every row a handler starts to send is eventually received by the
\* batcher and eventually part of a submitted batch, while further rows of
\* the request arrive and while writer calls fail; no handler stays
\* suspended on a full channel forever
C37_EveryRowSubmitted ==
    /\ \A r \in Reqs : \A k \in 1..MaxRowsOfRequest :
          /\ StartsToSend(r, k) ~>
                (Len(sent[r]) >= k /\ sent[r][k] \in Range(received))
          /\ StartsToSend(r, k) ~>
                (Len(sent[r]) >= k /\ sent[r][k] \in Range(submitted))
    /\ \A r \in Reqs : Suspended(r) ~> ~Suspended(r)

\* the handler is suspended at the send of its last row behind a full
\* channel, the batcher having received nothing yet
C37_Witness ==
    /\ Suspended(1)
    /\ StartsToSend(1, MaxRowsOfRequest)
    /\ Len(channel) = ChannelCapacity
    /\ received = <<>>

\* the batcher is out of its main loop: in final_flush, or ended
LeftLoop == pc \in {"final", "final_backoff"} \/ BatcherEnded

\* request r holds its clone of the Sender: its handler runs
HoldsSender(r) == hpc[r] \notin {"idle", "done"}

\* C38: the batcher leaves its loop only after every sender has been dropped
\* and the channel is empty, on the None of recv; so while a handler holds a
\* sender the receiver exists, the handler's send enqueues its row, and no
\* request ends at a send that failed
C38_LoopLeftOnlyAfterClose ==
    /\ [](LeftLoop => (~senders_open /\ channel = <<>>))
    /\ [](\A r \in Reqs : HoldsSender(r) => (senders_open /\ ~LeftLoop))
    /\ [](\A r \in Reqs : ~(hpc[r] = "done" /\ rows[r] # <<>>))
    /\ [][ /\ (~LeftLoop /\ LeftLoop') =>
                (pc = "select" /\ ~senders_open /\ channel = <<>>)
           /\ \A r \in Reqs :
                 (hpc[r] = "sending" /\ (hpc'[r] # "sending" \/ rows'[r] # rows[r])) =>
                    (sent'[r] = Append(sent[r], Head(rows[r]))
                       /\ channel' = Append(channel, Head(rows[r]))) ]_vars

\* the batcher has ended after the close of the channel, having received
\* and submitted the rows of a request that sent every row it had
C38_Witness ==
    /\ pc = "exited"
    /\ ~senders_open
    /\ hpc[1] = "done"
    /\ Len(sent[1]) = MaxRowsOfRequest
    /\ received = sent[1]
    /\ submitted = received

\* The same pipelines at shutdown: the None of recv is a ready branch of
\* select! like the others, taken when it is ready again and again.
FairShutdownSpec ==
    /\ IngestInit /\ [][IngestNext]_vars
    /\ WF_vars(Batcher) /\ SF_vars(RecvRecord) /\ SF_vars(RecvClosed)
    /\ SF_vars(HandleTick)
    /\ WF_vars(TimePasses) /\ WF_vars(TimerSend)
    /\ \A r \in Reqs : WF_vars(SendRow(r))

\* every row sent on the channel
RowsSent == Len(sent[1]) + Len(sent[2])

\* C39: once every sender is dropped, under fair scheduling and writer calls
\* that return, the batcher eventually ends, by its normal exit or by the
\* abort of the final flush, having received every row that was in the
\* channel; at the normal exit with uploads enabled nothing is left in its
\* buffer; and the timer task eventually ends as well
C39_TerminatesAfterClose ==
    /\ [](BatcherEnded => (channel = <<>> /\ Len(received) = RowsSent))
    /\ []((pc = "exited" /\ ~skip_upload) =>
             (buffer = <<>> /\ records_to_flush = <<>>))
    /\ ~senders_open ~> BatcherEnded
    /\ ~senders_open ~> (BatcherEnded /\ timer_pc = "stopped")
    /\ [][BatcherEnded => BatcherEnded']_vars
    /\ [][timer_pc = "stopped" => timer_pc' = "stopped"]_vars

\* the final flush has failed 5 times: the batcher is aborted with every
\* row received, and the timer task has ended after it
C39_Witness ==
    /\ pc = "panicked"
    /\ timer_pc = "stopped"
    /\ Len(received) = MaxRowsOfRequest
    /\ Len(records_to_flush) = 1
    /\ Len(submitted) = MaxRowsOfRequest

\* the lookup of the request's token has been made and it succeeded
LookupSucceeded(r) ==
    /\ consumed[r] # <<>>
    /\ consumed[r][1].kind = "lookup"
    /\ consumed[r][1].db_ok

\* the request's headers pass auth when the lookup answers
Authenticated(r) == Auth(headers[r], TRUE).ok /\ LookupSucceeded(r)

\* a header every enrichment needs is absent or is no text
LacksRequiredHeader(r) ==
    \/ headers[r].run_id \in {NoHeader, NotText}
    \/ headers[r].project_name \in {NoHeader, NotText}

\* the rows of request r that are in the pipeline
RowsInPipeline(r) ==
    {row \in Range(channel) \cup Range(received) \cup Range(sent[r]) : row.req = r}

\* C40: a request sends no row before its authentication succeeded and its
\* enrichment was derived: a request with rows built or sent is
\* authenticated and holds the enrichment of its headers, and a request
\* that fails auth or lacks a required header, on an ingest endpoint or on
\* the presign endpoint, ends with no row built or enqueued
C40_NoRowBeforeAuth ==
    \A r \in Reqs :
        /\ (rows[r] # <<>> \/ RowsInPipeline(r) # {}) =>
              /\ headers[r] # NoRequest
              /\ Authenticated(r)
              /\ ~LacksRequiredHeader(r)
              /\ enrichment[r] # NoEnrichment
              /\ enrichment[r] =
                    FromHeaders(row_type, Auth(headers[r], TRUE).tenant_id,
                                headers[r]).enrichment
        /\ (hpc[r] # "idle" /\ (~Authenticated(r) \/ LacksRequiredHeader(r))) =>
              /\ hpc[r] = "done"
              /\ sent[r] = <<>> /\ rows[r] = <<>> /\ RowsInPipeline(r) = {}
              /\ enrichment[r] = NoEnrichment
              /\ response[r].code # "OK"

\* a presign request with a valid token and no X-Project-Name has been
\* answered with the header error, and no row was enqueued
C40_Witness ==
    /\ row_type = "files"
    /\ hpc[1] = "done"
    /\ Authenticated(1)
    /\ headers[1].run_id = "7"
    /\ headers[1].project_name = NoHeader
    /\ response[1].code = "INVALID_HEADER_FORMAT"
    /\ sent[1] = <<>>
    /\ channel = <<>>
    /\ received = <<>>

====
